---- MODULE Spec2Model ----
(***************************************************************************)
(* A model of PyToon, the TOON codec: the encoder (value formatter,        *)
(* quoting engine, tabular analyser, array and object encoders), the       *)
(* depth decoder (line scanner, header parser, recursive descent over a    *)
(* line cursor) and the global type-handler registry.                      *)
(*                                                                         *)
(* Text is a sequence of one-character strings; a newline is the           *)
(* character "\n".  A value of the data model is a tagged record.          *)
(***************************************************************************)
EXTENDS Integers, Sequences, FiniteSets, TLC

(***************************************************************************)
(* Characters and text                                                     *)
(***************************************************************************)
TAB == "\t"
NL == "\n"
SP == " "
DQ == "\""
BS == "\\"

DigitChars == <<"0", "1", "2", "3", "4", "5", "6", "7", "8", "9">>

IsDigit(c) == \E i \in 1..10 : DigitChars[i] = c

DigitVal(c) == (CHOOSE i \in 1..10 : DigitChars[i] = c) - 1

\* The characters of the model in code-point order (used to sort keys).
CodePoints ==
  <<TAB, NL, SP, DQ, ",", "-", ".", "0", "1", "2", "3", "4", "5", "6", "7",
    "8", "9", ":", "[", BS, "]", "_", "a", "b", "c", "d", "e", "f", "g", "h",
    "i", "j", "k", "l", "m", "n", "o", "p", "q", "r", "s", "t", "u", "v", "w",
    "x", "y", "z", "{", "|", "}">>

Ord(c) == CHOOSE i \in 1..Len(CodePoints) : CodePoints[i] = c

RECURSIVE StrLess(_, _)
StrLess(a, b) ==
  IF b = <<>> THEN FALSE
  ELSE IF a = <<>> THEN TRUE
  ELSE IF Head(a) = Head(b) THEN StrLess(Tail(a), Tail(b))
  ELSE Ord(Head(a)) < Ord(Head(b))

Contains(s, c) == \E i \in 1..Len(s) : s[i] = c

StartsWith(s, p) == Len(s) >= Len(p) /\ SubSeq(s, 1, Len(p)) = p

\* Index of the first occurrence of c in s at or after position from (0 if none).
IndexFrom(s, c, from) ==
  IF \E i \in from..Len(s) : s[i] = c
  THEN CHOOSE i \in from..Len(s) : s[i] = c /\ \A j \in from..(i - 1) : s[j] # c
  ELSE 0

IsSpace(c) == c = SP \/ c = TAB

RECURSIVE LStrip(_)
LStrip(s) == IF s # <<>> /\ IsSpace(Head(s)) THEN LStrip(Tail(s)) ELSE s

RECURSIVE RStrip(_)
RStrip(s) ==
  IF s # <<>> /\ IsSpace(s[Len(s)]) THEN RStrip(SubSeq(s, 1, Len(s) - 1)) ELSE s

Strip(s) == LStrip(RStrip(s))

RECURSIVE Spaces(_)
Spaces(n) == IF n <= 0 THEN <<>> ELSE <<SP>> \o Spaces(n - 1)

RECURSIVE Join(_, _)
Join(parts, sep) ==
  IF parts = <<>> THEN <<>>
  ELSE IF Len(parts) = 1 THEN parts[1]
  ELSE parts[1] \o sep \o Join(Tail(parts), sep)

RECURSIVE NatToStr(_)
NatToStr(n) ==
  IF n < 10 THEN <<DigitChars[n + 1]>>
  ELSE NatToStr(n \div 10) \o <<DigitChars[(n % 10) + 1]>>

IntToStr(n) == IF n < 0 THEN <<"-">> \o NatToStr(-n) ELSE NatToStr(n)

AllDigits(s) == s # <<>> /\ \A i \in 1..Len(s) : IsDigit(s[i])

RECURSIVE StrToNat(_)
StrToNat(s) ==
  IF s = <<>> THEN 0
  ELSE 10 * StrToNat(SubSeq(s, 1, Len(s) - 1)) + DigitVal(s[Len(s)])

(***************************************************************************)
(* Values                                                                  *)
(***************************************************************************)
PyNone == [t |-> "null"]
PyBool(b) == [t |-> "bool", b |-> b]
PyInt(n) == [t |-> "int", n |-> n]
PyStr(s) == [t |-> "str", s |-> s]
\* A finite float is the decimal number (-1)^neg * m * 10^e; the other
\* floats are nan, inf and -inf.
PyFloat(neg, m, e) == [t |-> "float", kind |-> "finite", neg |-> neg, m |-> m, e |-> e]
PySpecialFloat(kind) == [t |-> "float", kind |-> kind]
PyList(xs) == [t |-> "list", xs |-> xs]
\* An object is its key/value pairs in insertion order.
PyDict(kv) == [t |-> "dict", kv |-> kv]
\* Python values outside the data model: a set, a tuple, an instance of a
\* user class (cls names the class).
PySet(xs) == [t |-> "set", xs |-> xs]
PyTuple(xs) == [t |-> "tuple", xs |-> xs]
PyObject(cls) == [t |-> "object", cls |-> cls]

IsScalar(v) == v.t \in {"null", "bool", "int", "float", "str"}

Keys(o) == [i \in 1..Len(o.kv) |-> o.kv[i][1]]

KeySet(o) == {o.kv[i][1] : i \in 1..Len(o.kv)}

Get(o, k) == o.kv[CHOOSE i \in 1..Len(o.kv) : o.kv[i][1] = k][2]

(***************************************************************************)
(* Quoting engine                                                          *)
(***************************************************************************)
s_true == <<"t", "r", "u", "e">>
s_false == <<"f", "a", "l", "s", "e">>
s_null == <<"n", "u", "l", "l">>
s_array == <<"a", "r", "r", "a", "y">>

StructuralChars == {":", "[", "]", "{", "}", NL, "\r", BS, DQ, TAB}

\* Variant of LooksNumeric: only a whole number, -?digits(.digits)?.
matches_number(text) ==
  LET Unsigned(t) ==
        \/ AllDigits(t)
        \/ \E i \in 2..(Len(t) - 1) :
             /\ t[i] = "."
             /\ AllDigits(SubSeq(t, 1, i - 1))
             /\ AllDigits(SubSeq(t, i + 1, Len(t)))
  IN  Unsigned(IF text # <<>> /\ text[1] = "-" THEN Tail(text) ELSE text)

\* -?digits(.digits)?, or a leading digit, or '-' followed by a digit.
LooksNumeric(text) ==
  /\ text # <<>>
  /\ \/ IsDigit(text[1])
     \/ (text[1] = "-" /\ Len(text) >= 2 /\ IsDigit(text[2]))

needs_quoting(text, delimiter) ==
  \/ text = <<>>
  \/ text \in {s_true, s_false, s_null}
  \/ LooksNumeric(text)
  \/ Contains(text, delimiter)
  \/ Strip(text) # text
  \/ StartsWith(text, <<"-", SP>>)
  \/ \E i \in 1..Len(text) : text[i] \in StructuralChars
  \/ \E i \in 2..Len(text) : text[i] = "-"

Letters ==
  {"a", "b", "c", "d", "e", "f", "g", "h", "i", "j", "k", "l", "m", "n", "o",
   "p", "q", "r", "s", "t", "u", "v", "w", "x", "y", "z",
   "A", "B", "C", "D", "E", "F", "G", "H", "I", "J", "K", "L", "M", "N", "O",
   "P", "Q", "R", "S", "T", "U", "V", "W", "X", "Y", "Z"}

\* A letter or an underscore, then letters, digits and underscores.
is_safe_identifier(text) ==
  /\ text # <<>>
  /\ text[1] \in Letters \cup {"_"}
  /\ \A i \in 2..Len(text) : text[i] \in Letters \cup {"_"} \/ IsDigit(text[i])

EscapeChar(c) ==
  CASE c = BS -> <<BS, BS>>
    [] c = DQ -> <<BS, DQ>>
    [] c = NL -> <<BS, "n">>
    [] c = "\r" -> <<BS, "r">>
    [] c = TAB -> <<BS, "t">>
    [] OTHER -> <<c>>

RECURSIVE Escape(_)
Escape(text) ==
  IF text = <<>> THEN <<>> ELSE EscapeChar(Head(text)) \o Escape(Tail(text))

quote_string(text) == <<DQ>> \o Escape(text) \o <<DQ>>

\* A string token as the encoders write it: quoted exactly when needed.
encode_string(text, delimiter) ==
  IF needs_quoting(text, delimiter) THEN quote_string(text) ELSE text

(***************************************************************************)
(* Value encoder: a scalar to its text                                     *)
(***************************************************************************)
RECURSIVE Zeros(_)
Zeros(n) == IF n <= 0 THEN <<>> ELSE <<"0">> \o Zeros(n - 1)

\* The digits of m * 10^e in fixed-point notation.
fixed_point(m, e) ==
  IF e >= 0 THEN NatToStr(m) \o Zeros(e)
  ELSE IF Len(NatToStr(m)) > -e
  THEN SubSeq(NatToStr(m), 1, Len(NatToStr(m)) + e) \o <<".">> \o
       SubSeq(NatToStr(m), Len(NatToStr(m)) + e + 1, Len(NatToStr(m)))
  ELSE <<"0", ".">> \o Zeros(-e - Len(NatToStr(m))) \o NatToStr(m)

RECURSIVE RStripZeros(_)
RStripZeros(s) ==
  IF s # <<>> /\ s[Len(s)] = "0" THEN RStripZeros(SubSeq(s, 1, Len(s) - 1))
  ELSE s

\* rstrip("0").rstrip(".") of a text with a decimal point.
strip_fraction(s) ==
  IF ~Contains(s, ".") THEN s
  ELSE IF RStripZeros(s)[Len(RStripZeros(s))] = "."
  THEN SubSeq(RStripZeros(s), 1, Len(RStripZeros(s)) - 1)
  ELSE RStripZeros(s)

\* Variant of encode_float: the text str() gives a float.
float_str(f) ==
  IF f.kind # "finite" THEN <<"n", "a", "n">>
  ELSE (IF f.neg THEN <<"-">> ELSE <<>>) \o
       (IF Contains(fixed_point(f.m, f.e), ".") THEN fixed_point(f.m, f.e)
        ELSE fixed_point(f.m, f.e) \o <<".", "0">>)

\* The value encoder on a float.
encode_float(f) ==
  IF f.kind # "finite" THEN s_null
  ELSE IF f.m = 0 THEN <<"0">>
  ELSE (IF f.neg THEN <<"-">> ELSE <<>>) \o strip_fraction(fixed_point(f.m, f.e))

encode_value(v, delimiter) ==
  CASE v.t = "null" -> s_null
    [] v.t = "bool" -> IF v.b THEN s_true ELSE s_false
    [] v.t = "int" -> IntToStr(v.n)
    [] v.t = "float" -> encode_float(v)
    [] v.t = "str" -> encode_string(v.s, delimiter)

(***************************************************************************)
(* Tabular analyser                                                        *)
(***************************************************************************)
\* Variant of MinKey: the greatest key, so that lists come out descending.
MaxKey(S) == CHOOSE k \in S : \A j \in S : j = k \/ StrLess(j, k)

MinKey(S) == CHOOSE k \in S : \A j \in S : j = k \/ StrLess(k, j)

RECURSIVE SortedKeys(_)
SortedKeys(S) ==
  IF S = {} THEN <<>> ELSE <<MinKey(S)>> \o SortedKeys(S \ {MinKey(S)})

\* Variant of analyze: the keys of the elements are compared in insertion
\* order.
analyze_ordered(arr) ==
  IF arr = <<>> THEN [is_tabular |-> TRUE, fields |-> <<>>]
  ELSE IF /\ \A i \in 1..Len(arr) : arr[i].t = "dict"
          /\ \A i \in 1..Len(arr) : Keys(arr[i]) = Keys(arr[1])
          /\ \A i \in 1..Len(arr) :
               \A j \in 1..Len(arr[i].kv) : IsScalar(arr[i].kv[j][2])
       THEN [is_tabular |-> TRUE, fields |-> SortedKeys(KeySet(arr[1]))]
       ELSE [is_tabular |-> FALSE, fields |-> <<>>]

analyze(arr) ==
  IF arr = <<>> THEN [is_tabular |-> TRUE, fields |-> <<>>]
  ELSE IF /\ \A i \in 1..Len(arr) : arr[i].t = "dict"
          /\ \A i \in 1..Len(arr) : KeySet(arr[i]) = KeySet(arr[1])
          /\ \A i \in 1..Len(arr) :
               \A j \in 1..Len(arr[i].kv) : IsScalar(arr[i].kv[j][2])
       THEN [is_tabular |-> TRUE, fields |-> SortedKeys(KeySet(arr[1]))]
       ELSE [is_tabular |-> FALSE, fields |-> <<>>]

(***************************************************************************)
(* Array encoder and object encoder.  Both return the lines of the block   *)
(* they write; current_depth is the depth of the line that holds the       *)
(* header (array) or of the key lines (object).                            *)
(***************************************************************************)
Pad(indent, depth) == Spaces(indent * depth)

\* The delimiter hint the array encoder writes inside the header brackets:
\* a backslash and the letter t for a tab, nothing for a comma or a pipe.
DelimiterHint(delimiter) == IF delimiter = TAB THEN <<BS, "t">> ELSE <<>>

\* Variant of encode_key: a key is written bare only when it is a safe
\* identifier.
encode_key_identifier(key, delimiter) ==
  IF is_safe_identifier(key) THEN key ELSE quote_string(key)

encode_key(key, delimiter) == encode_string(key, delimiter)

RECURSIVE Flatten(_)
Flatten(blocks) ==
  IF blocks = <<>> THEN <<>> ELSE Head(blocks) \o Flatten(Tail(blocks))

\* The text after the leading word "array" of a header written by the
\* array encoder.
StripArrayWord(line) ==
  IF StartsWith(line, s_array) THEN SubSeq(line, Len(s_array) + 1, Len(line))
  ELSE line

RECURSIVE ArrayEncoder_encode(_, _, _, _)
RECURSIVE ObjectEncoder_encode(_, _, _, _)

\* One element of a list-form array, the dash line at current_depth + 1.
ListItemLines(item, indent, delimiter, current_depth) ==
  LET pad == Pad(indent, current_depth + 1)
      dash == <<"-", SP>>
      Dashed(block) == <<pad \o dash \o LStrip(block[1])>> \o Tail(block)
  IN  IF IsScalar(item) THEN <<pad \o dash \o encode_value(item, delimiter)>>
      ELSE IF item.t = "dict" THEN
        IF item.kv = <<>> THEN <<pad \o dash \o <<"{", "}">>>>
        ELSE Dashed(ObjectEncoder_encode(item, indent, delimiter,
                                         current_depth + 2))
      ELSE Dashed(ArrayEncoder_encode(item.xs, indent, delimiter,
                                      current_depth + 1))

\* Variant of choose_form: tabular whenever the analyser says so, with or
\* without fields.
choose_form_fieldless(arr) ==
  IF arr = <<>> THEN "empty"
  ELSE IF analyze(arr).is_tabular THEN "tabular"
  ELSE IF \A i \in 1..Len(arr) : IsScalar(arr[i]) THEN "inline"
  ELSE "list"

\* The form the array encoder writes an array in.
choose_form(arr) ==
  IF arr = <<>> THEN "empty"
  ELSE IF analyze(arr).is_tabular /\ analyze(arr).fields # <<>> THEN "tabular"
  ELSE IF \A i \in 1..Len(arr) : IsScalar(arr[i]) THEN "inline"
  ELSE "list"

ArrayEncoder_encode(arr, indent, delimiter, current_depth) ==
  LET open == s_array \o <<"[">> \o NatToStr(Len(arr))
      Row(o, fields) ==
        Pad(indent, current_depth + 1) \o
        Join([i \in 1..Len(fields) |->
                encode_value(Get(o, fields[i]), delimiter)], <<delimiter>>)
      Form(a, form) ==
        IF form = "empty" THEN <<open \o <<"]", ":">>>>
        ELSE IF form = "tabular" THEN
          <<open \o DelimiterHint(delimiter) \o <<"]", "{">> \o
            Join([i \in 1..Len(a.fields) |-> encode_key(a.fields[i], delimiter)],
                 <<delimiter>>) \o <<"}", ":">>>>
          \o [i \in 1..Len(arr) |-> Row(arr[i], a.fields)]
        ELSE IF form = "inline" THEN
          <<open \o <<"]", ":", SP>> \o
            Join([i \in 1..Len(arr) |-> encode_value(arr[i], delimiter)],
                 <<delimiter>>)>>
        ELSE
          <<open \o <<"]", ":">>>> \o
          Flatten([i \in 1..Len(arr) |->
                     ListItemLines(arr[i], indent, delimiter, current_depth)])
  IN  Form(analyze(arr), choose_form(arr))

\* The lines one key of an object contributes.
KeyLines(key, v, indent, delimiter, current_depth) ==
  LET head == Pad(indent, current_depth) \o encode_key(key, delimiter) \o <<":">>
      Under(h, al) ==
        IF Len(al) = 1 THEN <<h \o <<SP>> \o al[1]>>
        ELSE <<h, Pad(indent, current_depth + 1) \o StripArrayWord(al[1])>>
             \o Tail(al)
      Line(h) ==
        IF IsScalar(v) THEN <<h \o <<SP>> \o encode_value(v, delimiter)>>
        ELSE IF v.t = "dict" THEN
          <<h>> \o ObjectEncoder_encode(v, indent, delimiter, current_depth + 1)
        ELSE Under(h, ArrayEncoder_encode(v.xs, indent, delimiter, current_depth))
  IN  Line(head)

ObjectEncoder_encode(obj, indent, delimiter, current_depth) ==
  Flatten([i \in 1..Len(obj.kv) |->
             KeyLines(obj.kv[i][1], obj.kv[i][2], indent, delimiter,
                      current_depth)])

(***************************************************************************)
(* Type-handler registry: an ordered list of handlers, first match wins.   *)
(***************************************************************************)
BuiltinHandlers == <<"UUIDHandler", "SetHandler">>

UserHandlers == {"CustomUUIDHandler", "PriorityUUIDHandler", "PointHandler"}

\* Variant of can_handle: a SetHandler that claims tuples as well.
can_handle_wide(h, v) ==
  CASE h = "UUIDHandler" -> v.t = "object" /\ v.cls = "uuid"
    [] h = "CustomUUIDHandler" -> v.t = "object" /\ v.cls = "uuid"
    [] h = "PriorityUUIDHandler" -> v.t = "object" /\ v.cls = "uuid"
    [] h = "PointHandler" -> v.t = "object" /\ v.cls = "point"
    [] h = "SetHandler" -> v.t \in {"set", "tuple"}

\* can_handle of handler h: the isinstance test of its class.
can_handle(h, v) ==
  CASE h = "UUIDHandler" -> v.t = "object" /\ v.cls = "uuid"
    [] h = "CustomUUIDHandler" -> v.t = "object" /\ v.cls = "uuid"
    [] h = "PriorityUUIDHandler" -> v.t = "object" /\ v.cls = "uuid"
    [] h = "PointHandler" -> v.t = "object" /\ v.cls = "point"
    [] h = "SetHandler" -> v.t = "set"

s_uuid == <<"u", "u", "i", "d", ":">>
s_custom_uuid == <<"c", "u", "s", "t", "o", "m", "-">> \o s_uuid
s_priority_uuid == <<"p", "r", "i", "o", "r", "i", "t", "y", "-">> \o s_uuid
s_point == <<"p", "o", "i", "n", "t", ":">>
s_set == <<"s", "e", "t", ":">>

\* The text a handler writes: a type prefix and str() of the payload.
handler_encode(h, v) ==
  CASE h = "UUIDHandler" -> s_uuid \o <<"7">>
    [] h = "CustomUUIDHandler" -> s_custom_uuid \o <<"7">>
    [] h = "PriorityUUIDHandler" -> s_priority_uuid \o <<"7">>
    [] h = "PointHandler" -> s_point \o <<"3", ",", "4">>
    [] h = "SetHandler" ->
         s_set \o <<"[">> \o
         Join([i \in 1..Len(v.xs) |-> IntToStr(v.xs[i])], <<",", SP>>) \o <<"]">>

\* Variant of register: the handler goes to the end of the list.
register_last(handlers, h) == handlers \o <<h>>

\* TypeRegistry.register(handler): the handler goes to the front of the list.
register(handlers, h) == <<h>> \o handlers

Matching(handlers, v) == {i \in 1..Len(handlers) : can_handle(handlers[i], v)}

\* Variant of TypeRegistry_encode_value: the first handler of the list
\* encodes, whether or not it accepts the value.
first_handler_encode_value(handlers, v) ==
  IF handlers = <<>> THEN [found |-> FALSE]
  ELSE [found |-> TRUE, text |-> handler_encode(handlers[1], v)]

\* TypeRegistry.encode_value: the first handler that accepts the value
\* encodes it.
TypeRegistry_encode_value(handlers, v) ==
  LET First(m) ==
        IF m = {} THEN [found |-> FALSE]
        ELSE [found |-> TRUE,
              text |-> handler_encode(
                         handlers[CHOOSE i \in m : \A j \in m : i <= j], v)]
  IN  First(Matching(handlers, v))

(***************************************************************************)
(* Encoder                                                                 *)
(***************************************************************************)
\* TOONSpec.MAX_NESTING_DEPTH is 100 in the program.  The model keeps the
\* encoder's comparison against the cap and scales the number down, so that
\* values below, at and above the cap are all encoded in full.
MAX_NESTING_DEPTH == 4
MIN_INDENT == 1
MAX_INDENT == 8

Ok(x) == [ok |-> TRUE, value |-> x]
Err(kind, msg) == [ok |-> FALSE, error |-> kind, message |-> msg]

Max(S) == CHOOSE x \in S : \A y \in S : y <= x

\* Variant of Depth: only arrays count as nesting.
RECURSIVE depth_of_arrays(_)
depth_of_arrays(v) ==
  CASE v.t = "list" ->
         1 + Max({0} \cup {depth_of_arrays(v.xs[i]) : i \in 1..Len(v.xs)})
    [] v.t = "dict" ->
         Max({0} \cup {depth_of_arrays(v.kv[i][2]) : i \in 1..Len(v.kv)})
    [] OTHER -> 0

\* Number of containers on the longest path from the value to a leaf.
RECURSIVE Depth(_)
Depth(v) ==
  CASE v.t = "list" -> 1 + Max({0} \cup {Depth(v.xs[i]) : i \in 1..Len(v.xs)})
    [] v.t = "dict" ->
         1 + Max({0} \cup {Depth(v.kv[i][2]) : i \in 1..Len(v.kv)})
    [] OTHER -> 0

\* Every leaf is a scalar or is accepted by a registered handler.
RECURSIVE Encodable(_, _)
Encodable(v, handlers) ==
  CASE IsScalar(v) -> TRUE
    [] v.t = "list" -> \A i \in 1..Len(v.xs) : Encodable(v.xs[i], handlers)
    [] v.t = "dict" -> \A i \in 1..Len(v.kv) : Encodable(v.kv[i][2], handlers)
    [] OTHER -> TypeRegistry_encode_value(handlers, v).found

SortPairs(kv) ==
  LET Order(ks) ==
        [i \in 1..Len(ks) |->
           kv[CHOOSE j \in 1..Len(kv) :
                kv[j][1] = ks[i] /\ \A m \in (j + 1)..Len(kv) : kv[m][1] # ks[i]]]
  IN  Order(SortedKeys({kv[i][1] : i \in 1..Len(kv)}))

\* The value the encoders see: handler-encoded leaves become strings and,
\* with sort_keys, every object's keys are in sorted order.
RECURSIVE Prepare(_, _, _)
Prepare(v, handlers, sort_keys) ==
  CASE IsScalar(v) -> v
    [] v.t = "list" ->
         PyList([i \in 1..Len(v.xs) |-> Prepare(v.xs[i], handlers, sort_keys)])
    [] v.t = "dict" ->
         LET Ordered(kv) == PyDict(IF sort_keys THEN SortPairs(kv) ELSE kv)
         IN  Ordered([i \in 1..Len(v.kv) |->
                        <<v.kv[i][1], Prepare(v.kv[i][2], handlers, sort_keys)>>])
    [] OTHER -> PyStr(TypeRegistry_encode_value(handlers, v).text)

Encoder_encode(value, cfg, handlers) ==
  LET Root(al) == <<StripArrayWord(al[1])>> \o Tail(al)
      Lines(v) ==
        IF v.t = "dict"
        THEN ObjectEncoder_encode(v, cfg.indent, cfg.delimiter, 0)
        ELSE IF v.t = "list"
        THEN Root(ArrayEncoder_encode(v.xs, cfg.indent, cfg.delimiter, 0))
        ELSE <<encode_value(v, cfg.delimiter)>>
  IN  IF cfg.indent < MIN_INDENT THEN Err("ValueError", "indent must be positive")
      ELSE IF Depth(value) > MAX_NESTING_DEPTH
      THEN Err("TOONEncodeError", "Maximum nesting depth")
      ELSE IF ~Encodable(value, handlers)
      THEN Err("TOONEncodeError", "Cannot encode type")
      ELSE Ok(Join(Lines(Prepare(value, handlers, cfg.sort_keys)), <<NL>>))

(***************************************************************************)
(* Parser utilities of the depth decoder                                   *)
(***************************************************************************)
DErr(kind, msg, line, column) ==
  [ok |-> FALSE, error |-> kind, message |-> msg, line |-> line,
   column |-> column]

\* Position of the quote that closes the one at start (0 if there is none);
\* a backslash escapes the character after it.
RECURSIVE ScanQuote(_, _)
ScanQuote(s, i) ==
  IF i > Len(s) THEN 0
  ELSE IF s[i] = BS THEN ScanQuote(s, i + 2)
  ELSE IF s[i] = DQ THEN i
  ELSE ScanQuote(s, i + 1)

find_closing_quote(s, start) == ScanQuote(s, start + 1)

RECURSIVE unescape_string(_)
unescape_string(s) ==
  IF s = <<>> THEN <<>>
  ELSE IF s[1] = BS /\ Len(s) >= 2
  THEN <<CASE s[2] = "n" -> NL
           [] s[2] = "t" -> TAB
           [] s[2] = "r" -> "\r"
           [] OTHER -> s[2]>> \o unescape_string(SubSeq(s, 3, Len(s)))
  ELSE <<s[1]>> \o unescape_string(Tail(s))

IsIntToken(t) ==
  \/ AllDigits(t)
  \/ (Len(t) >= 2 /\ t[1] = "-" /\ AllDigits(Tail(t)))

\* -?digits.digits
IsFloatToken(t) ==
  \E i \in 2..(Len(t) - 1) :
    /\ t[i] = "."
    /\ IsIntToken(SubSeq(t, 1, i - 1))
    /\ AllDigits(SubSeq(t, i + 1, Len(t)))

\* float(t) of a float token.
parse_float(t) ==
  LET Unsigned(u, dot) ==
        PyFloat(t[1] = "-",
                StrToNat(SubSeq(u, 1, dot - 1) \o SubSeq(u, dot + 1, Len(u))),
                dot - Len(u))
      Parse(u) == Unsigned(u, IndexFrom(u, ".", 1))
  IN  Parse(IF t[1] = "-" THEN Tail(t) ELSE t)

\* A scalar token to its value; ok is FALSE for a quoted token whose quote
\* is not closed at the end of the token.
parse_primitive_token(token) ==
  LET Parse(t) ==
        IF t = s_null THEN Ok(PyNone)
        ELSE IF t = s_true THEN Ok(PyBool(TRUE))
        ELSE IF t = s_false THEN Ok(PyBool(FALSE))
        ELSE IF IsIntToken(t)
        THEN Ok(PyInt(IF t[1] = "-" THEN -StrToNat(Tail(t)) ELSE StrToNat(t)))
        ELSE IF IsFloatToken(t) THEN Ok(parse_float(t))
        ELSE IF t # <<>> /\ t[1] = DQ
        THEN IF find_closing_quote(t, 1) = Len(t) /\ Len(t) >= 2
             THEN Ok(PyStr(unescape_string(SubSeq(t, 2, Len(t) - 1))))
             ELSE Err("TOONDecodeError", "Unterminated string")
        ELSE Ok(PyStr(t))
  IN  Parse(Strip(token))

\* Index of the first occurrence of one of the characters cs at or after i
\* that is outside double quotes (0 if none).
RECURSIVE FindUnquoted(_, _, _)
FindUnquoted(s, cs, i) ==
  LET Skip(q) == IF q = 0 THEN 0 ELSE FindUnquoted(s, cs, q + 1)
  IN  IF i > Len(s) THEN 0
      ELSE IF s[i] = DQ THEN Skip(find_closing_quote(s, i))
      ELSE IF s[i] \in cs THEN i
      ELSE FindUnquoted(s, cs, i + 1)

RECURSIVE SplitUnquoted(_, _)
SplitUnquoted(s, delimiter) ==
  LET Cut(i) ==
        IF i = 0 THEN <<Strip(s)>>
        ELSE <<Strip(SubSeq(s, 1, i - 1))>> \o
             SplitUnquoted(SubSeq(s, i + 1, Len(s)), delimiter)
  IN  Cut(FindUnquoted(s, {delimiter}, 1))

parse_delimited_values(text, delimiter) ==
  IF text = <<>> THEN <<>> ELSE SplitUnquoted(text, delimiter)

\* Variant of parse_bracket_segment: a length that is no number reads as 0.
parse_bracket_lenient(seg, default_delimiter) ==
  [ok |-> TRUE, length |-> IF AllDigits(seg) THEN StrToNat(seg) ELSE 0,
   delimiter |-> default_delimiter, marked |-> FALSE]

\* The text between the brackets of a header: a length and an optional
\* delimiter marker (a tab or a pipe) after it.
parse_bracket_segment(seg, default_delimiter) ==
  LET Segment(marked) ==
        LET Length(num) ==
              IF AllDigits(num)
              THEN [ok |-> TRUE, length |-> StrToNat(num),
                    delimiter |-> IF marked THEN seg[Len(seg)]
                                  ELSE default_delimiter,
                    marked |-> marked]
              ELSE IF Len(num) >= 2 /\ num[1] = "-" /\ AllDigits(Tail(num))
              THEN Err("TOONDecodeError", "Array length cannot be negative")
              ELSE Err("TOONDecodeError", "Invalid array header")
        IN  Length(IF marked THEN SubSeq(seg, 1, Len(seg) - 1) ELSE seg)
  IN  Segment(seg # <<>> /\ seg[Len(seg)] \in {TAB, "|"})

\* A key name as written: quoted (escapes undone) or bare.
KeyName(tok) ==
  IF Len(tok) >= 2 /\ tok[1] = DQ /\ find_closing_quote(tok, 1) = Len(tok)
  THEN unescape_string(SubSeq(tok, 2, Len(tok) - 1))
  ELSE tok

\* The delimiter of a payload: the one marked in the header, else the one
\* found in the payload (a comma, else a tab, else a pipe).
detect_delimiter(text, bracket) ==
  IF bracket.marked THEN bracket.delimiter
  ELSE IF FindUnquoted(text, {","}, 1) # 0 THEN ","
  ELSE IF FindUnquoted(text, {TAB}, 1) # 0 THEN TAB
  ELSE IF FindUnquoted(text, {"|"}, 1) # 0 THEN "|"
  ELSE bracket.delimiter

NoHeader == [kind |-> "none"]

\* The part of a header line from the opening bracket at b on.
HeaderFrom(content, has_key, key, b) ==
  LET Header(bracket, fieldseg, braced, inline, b0) ==
        LET Named(d) ==
              LET Fields(names) ==
                    [kind |-> "header", has_key |-> has_key, key |-> key,
                     length |-> bracket.length, delimiter |-> d,
                     has_fields |-> braced,
                     fields |-> [i \in 1..Len(names) |-> KeyName(names[i])],
                     inline |-> inline]
              IN  Fields(parse_delimited_values(fieldseg, d))
        IN  IF ~bracket.ok
            THEN [kind |-> "error", message |-> bracket.message, column |-> b0]
            ELSE Named(detect_delimiter(IF braced THEN fieldseg ELSE inline,
                                        bracket))
      Tail2(c, after, braced, e) ==
        LET Colon(tail) ==
              IF tail = <<>> \/ tail[1] # ":" THEN NoHeader
              ELSE Header(parse_bracket_segment(SubSeq(content, b + 1, c - 1), ","),
                          IF braced THEN SubSeq(after, 2, e - 1) ELSE <<>>,
                          braced, Strip(Tail(tail)), b)
        IN  IF braced /\ e = 0 THEN NoHeader
            ELSE Colon(IF braced THEN SubSeq(after, e + 1, Len(after)) ELSE after)
      Braces(c, after) ==
        LET Close(braced) ==
              Tail2(c, after, braced, IF braced THEN IndexFrom(after, "}", 1) ELSE 0)
        IN  Close(after # <<>> /\ after[1] = "{")
      After(c) ==
        IF c = 0 THEN NoHeader
        ELSE Braces(c, SubSeq(content, c + 1, Len(content)))
  IN  After(IndexFrom(content, "]", b))

parse_array_header(content) ==
  LET Quoted(q) ==
        IF q = 0 \/ q = Len(content) \/ content[q + 1] # "[" THEN NoHeader
        ELSE HeaderFrom(content, TRUE,
                        unescape_string(SubSeq(content, 2, q - 1)), q + 1)
      Bare(b) ==
        LET Keyed(keypart) ==
              IF \E i \in 1..Len(keypart) : keypart[i] \in {":", SP, TAB, DQ}
              THEN NoHeader
              ELSE HeaderFrom(content, keypart # <<>>, keypart, b)
        IN  IF b = 0 THEN NoHeader ELSE Keyed(SubSeq(content, 1, b - 1))
  IN  IF content # <<>> /\ content[1] = DQ
      THEN Quoted(find_closing_quote(content, 1))
      ELSE Bare(IndexFrom(content, "[", 1))

\* The key of a "key: value" line and the text after its colon.
parse_key_token(content) ==
  LET Quoted(q) ==
        IF q = 0
        THEN [ok |-> FALSE, message |-> "Unterminated string", column |-> 1]
        ELSE IF q = Len(content) \/ content[q + 1] # ":"
        THEN [ok |-> FALSE, message |-> "Missing colon after key",
              column |-> q + 1]
        ELSE [ok |-> TRUE, key |-> unescape_string(SubSeq(content, 2, q - 1)),
              rest |-> Strip(SubSeq(content, q + 2, Len(content))),
              quoted |-> TRUE]
      Bare(c) ==
        IF c = 0
        THEN [ok |-> FALSE, message |-> "Missing colon after key",
              column |-> Len(content) + 1]
        ELSE [ok |-> TRUE, key |-> Strip(SubSeq(content, 1, c - 1)),
              rest |-> Strip(SubSeq(content, c + 1, Len(content))),
              quoted |-> FALSE]
  IN  IF content # <<>> /\ content[1] = DQ
      THEN Quoted(find_closing_quote(content, 1))
      ELSE Bare(IndexFrom(content, ":", 1))

(***************************************************************************)
(* Line scanner                                                            *)
(***************************************************************************)
DEFAULT_INDENT == 2

RECURSIVE SplitLines(_)
SplitLines(source) ==
  LET Cut(i) ==
        IF i = 0 THEN <<source>>
        ELSE <<SubSeq(source, 1, i - 1)>> \o
             SplitLines(SubSeq(source, i + 1, Len(source)))
  IN  Cut(IndexFrom(source, NL, 1))

RECURSIVE LeadingSpaces(_)
LeadingSpaces(raw) ==
  IF raw # <<>> /\ raw[1] = SP THEN 1 + LeadingSpaces(Tail(raw)) ELSE 0

\* Variant of ParsedLine: the depth is rounded up.
parsed_line_rounded_up(raw, n, indent_size) ==
  [indent |-> LeadingSpaces(raw),
   content |-> RStrip(SubSeq(raw, LeadingSpaces(raw) + 1, Len(raw))),
   depth |-> (LeadingSpaces(raw) + indent_size - 1) \div indent_size,
   line_number |-> n]

\* The line n of the source: its indentation, its content and its depth.
ParsedLine(raw, n, indent_size) ==
  LET Line(indent) ==
        [indent |-> indent,
         content |-> RStrip(SubSeq(raw, indent + 1, Len(raw))),
         depth |-> indent \div indent_size,
         line_number |-> n]
  IN  Line(LeadingSpaces(raw))

SelectSeq2(xs, keep) ==
  LET F[i \in 0..Len(xs)] ==
        IF i = 0 THEN <<>>
        ELSE IF i \in keep THEN Append(F[i - 1], xs[i]) ELSE F[i - 1]
  IN  F[Len(xs)]

\* The non-blank lines of the source, or the error of the first line whose
\* indentation is not a multiple of indent_size when strict.
scan_lines(source, indent_size, strict) ==
  LET Scan(raws) ==
        LET Check(nonblank, all) ==
              LET First(bad) ==
                    IF strict /\ bad # {}
                    THEN DErr("TOONValidationError",
                              "Indentation is not a multiple of indent size",
                              CHOOSE i \in bad : \A j \in bad : i <= j, 1)
                    ELSE [ok |-> TRUE, lines |-> SelectSeq2(all, nonblank),
                          blank_lines |-> {i \in 1..Len(raws) : i \notin nonblank}]
              IN  First({i \in nonblank : all[i].indent % indent_size # 0})
        IN  Check({i \in 1..Len(raws) : Strip(raws[i]) # <<>>},
                  [i \in 1..Len(raws) |-> ParsedLine(raws[i], i, indent_size)])
  IN  Scan(SplitLines(source))

(***************************************************************************)
(* LineCursor: the scanned lines and the number of lines consumed.         *)
(***************************************************************************)
LineCursor(lines) == [lines |-> lines, position |-> 0]

at_end(c) == c.position >= Len(c.lines)

\* The current line, None at the end.
peek(c) == IF at_end(c) THEN PyNone ELSE c.lines[c.position + 1]

\* The current line when it is at the given depth, None otherwise.
peek_at_depth(c, depth) ==
  IF ~at_end(c) /\ c.lines[c.position + 1].depth = depth
  THEN c.lines[c.position + 1]
  ELSE PyNone

\* Variant of advance: the position grows at the end as well.
advance_always(c) == [c EXCEPT !.position = @ + 1]

\* The position moves past the current line; there is none at the end.
advance(c) == IF at_end(c) THEN c ELSE [c EXCEPT !.position = @ + 1]

\* The current line, and the cursor past it.
next(c) == [cursor |-> advance(c), result |-> peek(c)]

(***************************************************************************)
(* Depth decoder: recursive descent over the scanned lines.  A step takes  *)
(* the cursor position pos and returns the value with the position after   *)
(* it, or the error.                                                       *)
(***************************************************************************)
At(v, pos) == [ok |-> TRUE, value |-> v, pos |-> pos]

LineErr(kind, msg, ln) == DErr(kind, msg, ln.line_number, ln.indent + 1)

HasKey(kv, k) == \E i \in 1..Len(kv) : kv[i][1] = k

\* Variant of Put: an existing key keeps its first value.
put_first(kv, k, v) == IF HasKey(kv, k) THEN kv ELSE Append(kv, <<k, v>>)

\* dict[k] = v: a new key goes last, an existing key keeps its place.
Put(kv, k, v) ==
  IF HasKey(kv, k)
  THEN [i \in 1..Len(kv) |-> IF kv[i][1] = k THEN <<k, v>> ELSE kv[i]]
  ELSE Append(kv, <<k, v>>)

IsDashLine(content) == content = <<"-">> \/ StartsWith(content, <<"-", SP>>)

IsKeyValue(content) == FindUnquoted(content, {":"}, 1) # 0

\* Variant of CheckCount: the declared length is never compared.
check_count_never(declared, items, what, strict, ln, pos) ==
  At(PyList(items), pos)

\* The declared length against the number of items found.
CheckCount(declared, items, what, strict, ln, pos) ==
  IF strict /\ declared # Len(items)
  THEN LineErr("TOONValidationError",
               IF what = "rows" THEN "Array declares N rows but found M"
               ELSE "Array declares N items but found M", ln)
  ELSE At(PyList(items), pos)

RECURSIVE TokenValues(_, _, _)
RECURSIVE AddToken(_, _, _, _)

AddToken(v, toks, ln, acc) ==
  IF ~v.ok THEN LineErr(v.error, v.message, ln)
  ELSE TokenValues(Tail(toks), ln, Append(acc, v.value))

TokenValues(toks, ln, acc) ==
  IF toks = <<>> THEN [ok |-> TRUE, values |-> acc]
  ELSE AddToken(parse_primitive_token(toks[1]), toks, ln, acc)

\* The values of the tokens of one line, or the error of the first bad one.
ParseTokens(toks, ln) == TokenValues(toks, ln, <<>>)

InlineCounted(vals, header, strict, ln, pos) ==
  IF ~vals.ok THEN vals
  ELSE CheckCount(header.length, vals.values, "items", strict, ln, pos)

decode_inline_array(header, strict, ln, pos) ==
  InlineCounted(ParseTokens(parse_delimited_values(header.inline,
                                                   header.delimiter), ln),
                header, strict, ln, pos)

Min(a, b) == IF a < b THEN a ELSE b

RowObject(vals, header, strict, ln) ==
  IF ~vals.ok THEN vals
  ELSE IF strict /\ Len(vals.values) # Len(header.fields)
  THEN LineErr("TOONValidationError",
               "Row has N values but expected M fields", ln)
  ELSE [ok |-> TRUE,
        value |-> PyDict([i \in 1..Min(Len(vals.values), Len(header.fields))
                            |-> <<header.fields[i], vals.values[i]>>])]

\* One row of a tabular array as an object over the header's fields.
DecodeRow(header, strict, ln) ==
  RowObject(ParseTokens(parse_delimited_values(ln.content, header.delimiter),
                        ln),
            header, strict, ln)

RECURSIVE TabularRows(_, _, _, _, _, _)
RECURSIVE AddRow(_, _, _, _, _, _, _)

AddRow(r, lines, pos, header, row_depth, strict, acc) ==
  IF ~r.ok THEN r
  ELSE TabularRows(lines, pos + 1, header, row_depth, strict,
                   Append(acc, r.value))

TabularRows(lines, pos, header, row_depth, strict, acc) ==
  IF pos > Len(lines) \/ lines[pos].depth # row_depth
  THEN [ok |-> TRUE, values |-> acc, pos |-> pos]
  ELSE AddRow(DecodeRow(header, strict, lines[pos]), lines, pos, header,
              row_depth, strict, acc)

\* The rows or items found under a header, checked against its length.
Counted(found, header, what, strict, ln) ==
  IF ~found.ok THEN found
  ELSE CheckCount(header.length, found.values, what, strict, ln, found.pos)

decode_tabular_array(lines, pos, header, row_depth, strict) ==
  Counted(TabularRows(lines, pos + 1, header, row_depth, strict, <<>>),
          header, "rows", strict, lines[pos])

\* The result r of decoding what a key holds, as the key's entry.
WithKey(key, r) ==
  IF ~r.ok THEN r
  ELSE [ok |-> TRUE, key |-> key, value |-> r.value, pos |-> r.pos]

\* The parsed scalar v of line ln, with the cursor moved to pos.
ScalarAt(v, ln, pos) ==
  IF ~v.ok THEN LineErr(v.error, v.message, ln) ELSE At(v.value, pos)

\* The text after the dash of a list item line.
AfterDash(content) == Strip(SubSeq(content, 3, Len(content)))

RECURSIVE decode_array(_, _, _, _, _)
RECURSIVE decode_key_value(_, _, _, _, _)
RECURSIVE decode_object(_, _, _, _, _)
RECURSIVE decode_list_item(_, _, _, _)
RECURSIVE ListItems(_, _, _, _, _)
RECURSIVE AddItem(_, _, _, _, _)
RECURSIVE PlainKeyValue(_, _, _, _, _)
RECURSIVE KeyValueOf(_, _, _, _, _, _)
RECURSIVE AddKey(_, _, _, _, _, _)
RECURSIVE SiblingsOf(_, _, _, _)
RECURSIVE ItemOf(_, _, _, _, _, _)

AddItem(r, lines, item_depth, strict, acc) ==
  IF ~r.ok THEN r
  ELSE ListItems(lines, r.pos, item_depth, strict, Append(acc, r.value))

\* The items of a list-form array: the dash lines at item_depth.
ListItems(lines, pos, item_depth, strict, acc) ==
  IF \/ pos > Len(lines)
     \/ lines[pos].depth # item_depth
     \/ ~IsDashLine(lines[pos].content)
  THEN [ok |-> TRUE, values |-> acc, pos |-> pos]
  ELSE AddItem(decode_list_item(lines, pos, item_depth, strict), lines,
               item_depth, strict, acc)

\* The array whose header is on line pos (or after the dash of line pos);
\* its rows or items are the following lines at child_depth.
decode_array(lines, pos, header, child_depth, strict) ==
  IF header.has_fields
  THEN decode_tabular_array(lines, pos, header, child_depth, strict)
  ELSE IF header.inline # <<>>
  THEN decode_inline_array(header, strict, lines[pos], pos + 1)
  ELSE Counted(ListItems(lines, pos + 1, child_depth, strict, <<>>),
               header, "items", strict, lines[pos])

\* "key: value" or "key:" with the parsed key k.
PlainKeyValue(k, lines, pos, child_depth, strict) ==
  IF ~k.ok THEN LineErr("TOONDecodeError", k.message, lines[pos])
  ELSE IF k.rest # <<>>
  THEN WithKey(k.key,
               ScalarAt(parse_primitive_token(k.rest), lines[pos], pos + 1))
  ELSE IF pos < Len(lines) /\ lines[pos + 1].depth = child_depth
  THEN WithKey(k.key,
               decode_object(lines, pos + 1, child_depth, <<>>, strict))
  ELSE [ok |-> TRUE, key |-> k.key, value |-> PyStr(<<>>), pos |-> pos + 1]

\* The statement of line pos given what parse_array_header made of it.
KeyValueOf(h, lines, pos, content, child_depth, strict) ==
  IF h.kind = "error" THEN LineErr("TOONDecodeError", h.message, lines[pos])
  ELSE IF h.kind = "header" /\ h.has_key
  THEN WithKey(h.key, decode_array(lines, pos, h, child_depth, strict))
  ELSE PlainKeyValue(parse_key_token(content), lines, pos, child_depth,
                     strict)

\* A "key: value", "key:" or "key[N]...:" statement found on line pos;
\* what it nests is on the following lines at child_depth.
decode_key_value(lines, pos, content, child_depth, strict) ==
  KeyValueOf(parse_array_header(content), lines, pos, content, child_depth,
             strict)

\* The entry r of line pos added to the object: a repeated key is an error
\* when strict and replaces the earlier value otherwise.
AddKey(r, lines, pos, depth, acc, strict) ==
  IF ~r.ok THEN r
  ELSE IF strict /\ HasKey(acc, r.key)
  THEN LineErr("TOONDecodeError", "Duplicate key", lines[pos])
  ELSE decode_object(lines, r.pos, depth, Put(acc, r.key, r.value), strict)

\* The keys of one object: the lines at depth from pos on, added to acc.
decode_object(lines, pos, depth, acc, strict) ==
  IF pos > Len(lines) \/ lines[pos].depth < depth
  THEN At(PyDict(acc), pos)
  ELSE IF lines[pos].depth > depth
  THEN LineErr("TOONDecodeError", "Unexpected indentation", lines[pos])
  ELSE AddKey(decode_key_value(lines, pos, lines[pos].content, depth + 1,
                               strict),
              lines, pos, depth, acc, strict)

\* The object of a list item whose first key is on the dash line.
SiblingsOf(first, lines, item_depth, strict) ==
  IF ~first.ok THEN first
  ELSE decode_object(lines, first.pos, item_depth + 1,
                     <<<<first.key, first.value>>>>, strict)

ItemOf(rest, h, lines, pos, item_depth, strict) ==
  IF rest = <<>> THEN At(PyDict(<<>>), pos + 1)
  ELSE IF h.kind = "error"
  THEN LineErr("TOONDecodeError", h.message, lines[pos])
  ELSE IF h.kind = "header" /\ ~h.has_key
  THEN decode_array(lines, pos, h, item_depth + 1, strict)
  ELSE IF h.kind = "header" \/ IsKeyValue(rest)
  THEN SiblingsOf(decode_key_value(lines, pos, rest, item_depth + 2, strict),
                  lines, item_depth, strict)
  ELSE ScalarAt(parse_primitive_token(rest), lines[pos], pos + 1)

\* The element on the dash line pos of a list-form array.
decode_list_item(lines, pos, item_depth, strict) ==
  IF ~IsDashLine(lines[pos].content)
  THEN LineErr("TOONDecodeError", "Expected list item", lines[pos])
  ELSE ItemOf(AfterDash(lines[pos].content),
              parse_array_header(AfterDash(lines[pos].content)),
              lines, pos, item_depth, strict)

\* The root value must use up every line.
Whole(r, lines) ==
  IF ~r.ok THEN r
  ELSE IF r.pos <= Len(lines)
  THEN LineErr("TOONDecodeError", "Unexpected indentation", lines[r.pos])
  ELSE Ok(r.value)

\* The root form: an array header, a single scalar line, or an object.
RootOf(h, lines, strict) ==
  IF h.kind = "error" THEN LineErr("TOONDecodeError", h.message, lines[1])
  ELSE IF h.kind = "header" /\ ~h.has_key
  THEN Whole(decode_array(lines, 1, h,
                          IF Len(lines) > 1 /\ lines[2].depth = 0
                          THEN 0 ELSE 1,
                          strict),
             lines)
  ELSE IF Len(lines) = 1 /\ h.kind = "none" /\ ~IsKeyValue(lines[1].content)
  THEN Whole(ScalarAt(parse_primitive_token(lines[1].content), lines[1], 2),
             lines)
  ELSE Whole(decode_object(lines, 1, 0, <<>>, strict), lines)

decode_value_from_cursor(lines, strict) ==
  IF lines = <<>>
  THEN DErr("TOONDecodeError", "No content to decode", 1, 1)
  ELSE RootOf(parse_array_header(lines[1].content), lines, strict)

FromScan(scan, strict) ==
  IF ~scan.ok THEN scan ELSE decode_value_from_cursor(scan.lines, strict)

decode_toon(source, strict) ==
  FromScan(scan_lines(source, DEFAULT_INDENT, strict), strict)

\* Decoder(strict).decode(text): the value alone, or the error raised.
Decoder_decode(toon_string, strict) ==
  IF \A i \in 1..Len(toon_string) : toon_string[i] \in {SP, TAB, NL, "\r"}
  THEN Ok(PyDict(<<>>))
  ELSE decode_toon(toon_string, strict)

(***************************************************************************)
(* Depth decoder, step by step.  The same descent as a machine over a      *)
(* LineCursor: the stack holds one frame for every loop that is open (the  *)
(* keys of an object, the items of a list-form array, the rows of a        *)
(* tabular array), the innermost last.  A step is one iteration of the     *)
(* innermost loop; the values are left out, the lines consumed are not.    *)
(***************************************************************************)
ObjectFrame(depth, keys) == [kind |-> "object", depth |-> depth, keys |-> keys]

ListFrame(depth, length) ==
  [kind |-> "list", depth |-> depth, length |-> length, found |-> 0]

RowsFrame(depth, header) ==
  [kind |-> "rows", depth |-> depth, length |-> header.length, found |-> 0,
   header |-> header]

Top(stack) == stack[Len(stack)]

\* The element of a set of one element.
Only(S) == CHOOSE x \in S : TRUE

Pop(stack) == SubSeq(stack, 1, Len(stack) - 1)

\* The decoder goes on with the cursor c and the stack st.
Go(c, st) == [cursor |-> c, stack |-> st, raised |-> FALSE]

\* The decoder raises.
Raise(c, st) == [cursor |-> c, stack |-> st, raised |-> TRUE]

\* The innermost frame with one more item or row found.
Found(st) == [st EXCEPT ![Len(st)].found = @ + 1]

\* decode_array on the header line the cursor is at: an inline array is
\* read from the line, the other forms open a loop over the lines below.
enter_array(c, st, h, child_depth, strict) ==
  IF h.has_fields
  THEN Go(advance(c), Append(st, RowsFrame(child_depth, h)))
  ELSE IF h.inline # <<>>
  THEN IF decode_inline_array(h, strict, peek(c), c.position).ok
       THEN Go(advance(c), st)
       ELSE Raise(c, st)
  ELSE Go(advance(c), Append(st, ListFrame(child_depth, h.length)))

\* The key of a statement, when it has one.
statement_key(h, k) ==
  IF h.kind = "error" THEN [ok |-> FALSE]
  ELSE IF h.kind = "header" /\ h.has_key THEN [ok |-> TRUE, key |-> h.key]
  ELSE IF k.ok THEN [ok |-> TRUE, key |-> k.key]
  ELSE [ok |-> FALSE]

\* "key: value" or "key:" on the line the cursor is at.
plain_statement(c, st, k, child_depth) ==
  IF ~k.ok THEN Raise(c, st)
  ELSE IF k.rest # <<>>
  THEN IF parse_primitive_token(k.rest).ok
       THEN Go(advance(c), st)
       ELSE Raise(c, st)
  ELSE IF peek_at_depth(advance(c), child_depth) # PyNone
  THEN Go(advance(c), Append(st, ObjectFrame(child_depth, {})))
  ELSE Go(advance(c), st)

\* decode_key_value on the line the cursor is at, h and k being what
\* parse_array_header and parse_key_token make of the statement.
statement(c, st, h, k, child_depth, strict) ==
  IF h.kind = "error" THEN Raise(c, st)
  ELSE IF h.kind = "header" /\ h.has_key
  THEN enter_array(c, st, h, child_depth, strict)
  ELSE plain_statement(c, st, k, child_depth)

\* The statement with its key added to the keys of the innermost frame; a
\* key that is there already is an error when strict.
keyed_statement(c, st, h, k, key, child_depth, strict) ==
  IF strict /\ key.ok /\ key.key \in Top(st).keys THEN Raise(c, st)
  ELSE statement(c,
                 IF key.ok
                 THEN [st EXCEPT ![Len(st)].keys = @ \cup {key.key}]
                 ELSE st,
                 h, k, child_depth, strict)

\* A loop ends: the frame is left, after the count is checked.
leave(c, st, strict) ==
  IF Top(st).kind # "object" /\ strict /\ Top(st).length # Top(st).found
  THEN Raise(c, st)
  ELSE Go(c, Pop(st))

\* One iteration of decode_object: the next key of the object.
object_step(c, st, strict) ==
  IF at_end(c) \/ peek(c).depth < Top(st).depth THEN leave(c, st, strict)
  ELSE IF peek(c).depth > Top(st).depth THEN Raise(c, st)
  ELSE Only({keyed_statement(c, st, h, k, statement_key(h, k),
                              Top(st).depth + 1, strict) :
                h \in {parse_array_header(peek(c).content)},
                k \in {parse_key_token(peek(c).content)}})

\* decode_list_item on the dash line the cursor is at, rest being the text
\* after the dash, h and k what parse_array_header and parse_key_token make
\* of it.
list_item(c, st, rest, h, k, item_depth, strict) ==
  IF rest = <<>> THEN Go(advance(c), st)
  ELSE IF h.kind = "error" THEN Raise(c, st)
  ELSE IF h.kind = "header" /\ ~h.has_key
  THEN enter_array(c, st, h, item_depth + 1, strict)
  ELSE IF h.kind = "header" \/ IsKeyValue(rest)
  THEN keyed_statement(c, Append(st, ObjectFrame(item_depth + 1, {})), h, k,
                       statement_key(h, k), item_depth + 2, strict)
  ELSE IF parse_primitive_token(rest).ok THEN Go(advance(c), st)
  ELSE Raise(c, st)

\* One iteration over the items of a list-form array.
list_step(c, st, strict) ==
  IF \/ at_end(c)
     \/ peek(c).depth # Top(st).depth
     \/ ~IsDashLine(peek(c).content)
  THEN leave(c, st, strict)
  ELSE Only({list_item(c, Found(st), AfterDash(peek(c).content), h, k,
                        Top(st).depth, strict) :
                h \in {parse_array_header(AfterDash(peek(c).content))},
                k \in {parse_key_token(AfterDash(peek(c).content))}})

\* Variant of rows_step: the row is read and the cursor stays on it.
rows_step_peek(c, st, strict) ==
  IF at_end(c) \/ peek(c).depth # Top(st).depth THEN leave(c, st, strict)
  ELSE IF DecodeRow(Top(st).header, strict, peek(c)).ok
  THEN Go(c, Found(st))
  ELSE Raise(c, st)

\* One iteration over the rows of a tabular array.
rows_step(c, st, strict) ==
  IF at_end(c) \/ peek(c).depth # Top(st).depth THEN leave(c, st, strict)
  ELSE IF DecodeRow(Top(st).header, strict, peek(c)).ok
  THEN Go(advance(c), Found(st))
  ELSE Raise(c, st)

\* The root given what parse_array_header made of the first line: an
\* array, a single scalar line or an object.
root_of(c, h, strict) ==
  IF h.kind = "error" THEN Raise(c, <<>>)
  ELSE IF h.kind = "header" /\ ~h.has_key
  THEN enter_array(c, <<>>, h,
                   IF peek_at_depth(advance(c), 0) # PyNone THEN 0 ELSE 1,
                   strict)
  ELSE IF Len(c.lines) = 1 /\ h.kind = "none" /\ ~IsKeyValue(peek(c).content)
  THEN IF parse_primitive_token(peek(c).content).ok
       THEN Go(advance(c), <<>>)
       ELSE Raise(c, <<>>)
  ELSE Go(c, <<ObjectFrame(0, {})>>)

\* decode_value_from_cursor
root_step(c, strict) ==
  IF at_end(c) THEN Raise(c, <<>>)
  ELSE Only({root_of(c, h, strict) :
                h \in {parse_array_header(peek(c).content)}})

\* Decoder.decode up to the root: nothing to scan, a scan that raises, or
\* the root decoded at a cursor over the scanned lines.
begin(toon_string, scan, strict) ==
  IF \A i \in 1..Len(toon_string) : toon_string[i] \in {SP, TAB, NL, "\r"}
  THEN [cursor |-> LineCursor(<<>>), stack |-> <<>>, status |-> "returned"]
  ELSE IF ~scan.ok
  THEN [cursor |-> LineCursor(<<>>), stack |-> <<>>, status |-> "raised"]
  ELSE Only({[cursor |-> r.cursor, stack |-> r.stack,
               status |-> IF r.raised THEN "raised" ELSE "running"] :
                r \in {root_step(LineCursor(scan.lines), strict)}})

\* The decoder's run after the step that gave r.
Running(r) ==
  [status |-> IF r.raised THEN "raised" ELSE "running", stack |-> r.stack]

\* The lines the decoder's cursor is made of.
ScannedLines(toon_string, strict) ==
  LET scan == scan_lines(toon_string, DEFAULT_INDENT, strict)
  IN  IF scan.ok THEN scan.lines ELSE <<>>

(***************************************************************************)
(* Key folding engine and path expander                                    *)
(***************************************************************************)
\* KeyFoldingEngine._is_foldable_key(key): letters, digits and underscores,
\* starting with a letter.
is_foldable_key(key) == is_safe_identifier(key) /\ key[1] # "_"

\* Variant of _can_fold_path: the key of the single child is not looked at.
can_fold_path_any_child(value) == value.t = "dict" /\ Len(value.kv) = 1

\* KeyFoldingEngine._can_fold_path(value): a dict of exactly one key, and
\* that key is foldable.
can_fold_path(value) ==
  /\ value.t = "dict"
  /\ Len(value.kv) = 1
  /\ is_foldable_key(value.kv[1][1])

RECURSIVE fold_chain(_, _), fold_value(_)

\* The chain below the dotted path so far: it takes the single child while
\* the value can be folded, and ends in the pair <<path, folded value>>.
fold_chain(path, value) ==
  IF can_fold_path(value)
  THEN fold_chain(path \o <<".">> \o value.kv[1][1], value.kv[1][2])
  ELSE <<path, fold_value(value)>>

\* KeyFoldingEngine.fold(data) for a dict; a list is folded element by
\* element, any other value is returned as it is.
fold_value(value) ==
  CASE value.t = "dict" ->
         PyDict([i \in 1..Len(value.kv) |->
                   IF is_foldable_key(value.kv[i][1])
                   THEN fold_chain(value.kv[i][1], value.kv[i][2])
                   ELSE <<value.kv[i][1], fold_value(value.kv[i][2])>>])
    [] value.t = "list" ->
         PyList([i \in 1..Len(value.xs) |-> fold_value(value.xs[i])])
    [] OTHER -> value

fold(data) == fold_value(data)

RECURSIVE split_dots(_)

\* key.split("."): the segments between the dots, empty ones included.
split_dots(key) ==
  IF ~Contains(key, ".") THEN <<key>>
  ELSE <<SubSeq(key, 1, IndexFrom(key, ".", 1) - 1)>>
       \o split_dots(SubSeq(key, IndexFrom(key, ".", 1) + 1, Len(key)))

RECURSIVE nest(_, _)

\* The pairs of a fresh chain of dicts along parts, ending in value.
nest(parts, value) ==
  IF Len(parts) = 1 THEN <<<<parts[1], value>>>>
  ELSE <<<<parts[1], PyDict(nest(Tail(parts), value))>>>>

\* Variant of store_final: the last segment is assigned whether or not it
\* is there already.
store_final_assign(data, part, value, dotted) == Ok(Put(data, part, value))

\* The last segment of a path: a segment already there raises, "Key
\* conflict" when a dotted key meets a nested dict and "Duplicate key"
\* otherwise; a new one is stored.
store_final(data, part, value, dotted) ==
  IF HasKey(data, part)
  THEN IF dotted /\ Get(PyDict(data), part).t = "dict"
       THEN Err("TOONDecodeError", "Key conflict")
       ELSE Err("TOONDecodeError", "Duplicate key")
  ELSE Ok(Append(data, <<part, value>>))

\* The dict under part after the rest of the path was set below it.
store_below(data, part, r) ==
  IF r.ok THEN Ok(Put(data, part, PyDict(r.value))) ELSE r

RECURSIVE set_path(_, _, _, _)

\* PathExpander._set_nested along the segments: missing dicts are created,
\* a segment that holds a leaf raises "Key conflict".
set_path(data, parts, value, dotted) ==
  IF Len(parts) = 1 THEN store_final(data, parts[1], value, dotted)
  ELSE IF ~HasKey(data, parts[1])
  THEN Ok(data \o nest(parts, value))
  ELSE IF Get(PyDict(data), parts[1]).t # "dict"
  THEN Err("TOONDecodeError", "Key conflict")
  ELSE store_below(data, parts[1],
                   set_path(Get(PyDict(data), parts[1]).kv, Tail(parts), value,
                            dotted))

\* PathExpander._set_nested(data, key, value): the pairs of data afterwards,
\* or the error raised (data is then as it was).
set_nested(data, key, value) ==
  set_path(data, split_dots(key), value, Contains(key, "."))

RECURSIVE expand_from(_, _, _)

\* PathExpander.expand from the i-th pair on, result holding the pairs set
\* so far.
expand_from(kv, i, result) ==
  IF i > Len(kv) THEN Ok(PyDict(result))
  ELSE IF ~set_nested(result, kv[i][1], kv[i][2]).ok
  THEN set_nested(result, kv[i][1], kv[i][2])
  ELSE expand_from(kv, i + 1, set_nested(result, kv[i][1], kv[i][2]).value)

\* PathExpander.expand(data): the dotted keys of data itself are nested.
expand(data) == expand_from(data.kv, 1, <<>>)

\* The first error among the results rs, or the values of all of them.
AllOk(rs) ==
  IF \E i \in 1..Len(rs) : ~rs[i].ok
  THEN rs[CHOOSE i \in 1..Len(rs) :
            ~rs[i].ok /\ \A j \in 1..(i - 1) : rs[j].ok]
  ELSE Ok([i \in 1..Len(rs) |-> rs[i].value])

\* The dict of the keys of kv with the values vs, expanded.
expand_with(kv, vs) ==
  IF vs.ok
  THEN expand(PyDict([i \in 1..Len(kv) |-> <<kv[i][1], vs.value[i]>>]))
  ELSE vs

as_list(vs) == IF vs.ok THEN Ok(PyList(vs.value)) ELSE vs

RECURSIVE expand_recursive(_)

\* PathExpander.expand_recursive(data): dicts at every level, those in
\* lists included.
expand_recursive(data) ==
  CASE data.t = "dict" ->
         expand_with(data.kv,
                     AllOk([i \in 1..Len(data.kv) |->
                              expand_recursive(data.kv[i][2])]))
    [] data.t = "list" ->
         as_list(AllOk([i \in 1..Len(data.xs) |->
                          expand_recursive(data.xs[i])]))
    [] OTHER -> Ok(data)

IsPrefix(p, q) == Len(p) < Len(q) /\ SubSeq(q, 1, Len(p)) = p

\* PathExpander.validate_no_conflicts(data): "Key conflict" when the path of
\* one key runs through the path of another.
validate_no_conflicts(data) ==
  IF \E i, j \in 1..Len(data.kv) :
       IsPrefix(split_dots(data.kv[i][1]), split_dots(data.kv[j][1]))
  THEN Err("TOONDecodeError", "Key conflict")
  ELSE Ok(PyNone)

(***************************************************************************)
(* Parser state machine                                                    *)
(***************************************************************************)
ParserState ==
  {"INITIAL", "EXPECT_KEY", "EXPECT_COLON", "EXPECT_VALUE", "IN_ARRAY_TABULAR",
   "IN_ARRAY_INLINE", "IN_ARRAY_LIST", "IN_NESTED_OBJECT", "COMPLETE", "ERROR"}

Containers ==
  {"IN_NESTED_OBJECT", "IN_ARRAY_TABULAR", "IN_ARRAY_INLINE", "IN_ARRAY_LIST"}

\* Variant of valid_transitions: a machine in ERROR can be taken back to
\* INITIAL.
valid_transitions_recover(state) ==
  CASE state = "INITIAL" -> {"EXPECT_KEY", "COMPLETE", "ERROR"}
    [] state = "EXPECT_KEY" -> {"EXPECT_COLON", "ERROR"}
    [] state = "EXPECT_COLON" -> {"EXPECT_VALUE", "ERROR"}
    [] state = "EXPECT_VALUE" -> Containers \cup {"ERROR"}
    [] state \in Containers -> {"EXPECT_KEY", "COMPLETE", "ERROR"}
    [] state = "COMPLETE" -> {}
    [] state = "ERROR" -> {"INITIAL"}

\* Variant of valid_transitions: the chain alone, without the edges into
\* ERROR.
valid_transitions_chain(state) ==
  CASE state = "INITIAL" -> {"EXPECT_KEY", "COMPLETE"}
    [] state = "EXPECT_KEY" -> {"EXPECT_COLON"}
    [] state = "EXPECT_COLON" -> {"EXPECT_VALUE"}
    [] state = "EXPECT_VALUE" -> Containers
    [] state \in Containers -> {"EXPECT_KEY", "COMPLETE"}
    [] OTHER -> {}

\* The states transition_to accepts from a state: the chain from INITIAL to
\* the container states and back to EXPECT_KEY or on to COMPLETE, ERROR from
\* every state of the chain, and nothing from COMPLETE or ERROR.
valid_transitions(state) ==
  CASE state = "INITIAL" -> {"EXPECT_KEY", "COMPLETE", "ERROR"}
    [] state = "EXPECT_KEY" -> {"EXPECT_COLON", "ERROR"}
    [] state = "EXPECT_COLON" -> {"EXPECT_VALUE", "ERROR"}
    [] state = "EXPECT_VALUE" -> Containers \cup {"ERROR"}
    [] state \in Containers -> {"EXPECT_KEY", "COMPLETE", "ERROR"}
    [] state = "COMPLETE" -> {}
    [] state = "ERROR" -> {}

\* StateMachine(): the fields of a new machine.
StateMachine ==
  [state |-> "INITIAL", indent_stack |-> <<0>>, context_stack |-> <<>>]

\* Variant of transition_to: the new state is taken without a check.
transition_to_unchecked(m, new_state) ==
  [sm |-> [m EXCEPT !.state = new_state], result |-> Ok(PyNone)]

\* StateMachine.transition_to(new_state): the machine afterwards and what
\* the call returned or raised.
transition_to(m, new_state) ==
  IF new_state \in valid_transitions(m.state)
  THEN [sm |-> [m EXCEPT !.state = new_state], result |-> Ok(PyNone)]
  ELSE [sm |-> m, result |-> Err("TOONDecodeError", "Invalid state transition")]

current_indent(m) == m.indent_stack[Len(m.indent_stack)]

\* StateMachine.nesting_depth
nesting_depth(m) == Len(m.indent_stack) - 1

\* Variant of push_indent: the level is pushed without a comparison.
push_indent_any(m, level) ==
  [sm |-> [m EXCEPT !.indent_stack = Append(@, level)], result |-> Ok(PyNone)]

\* StateMachine.check_dedent(indent): the number of levels to leave for a
\* line of this indentation, 0 for a line at the current level or deeper;
\* the stack is left as it is.
check_dedent(m, indent) ==
  IF indent < 0
  THEN [sm |-> m,
        result |-> Err("TOONDecodeError", "Invalid negative indentation")]
  ELSE IF indent >= current_indent(m)
  THEN [sm |-> m, result |-> Ok(PyInt(0))]
  ELSE IF \E i \in 1..Len(m.indent_stack) : m.indent_stack[i] = indent
  THEN [sm |-> m,
        result |-> Ok(PyInt(Cardinality({i \in 1..Len(m.indent_stack) :
                                          m.indent_stack[i] > indent})))]
  ELSE [sm |-> m, result |-> Err("TOONDecodeError", "Invalid indentation")]

\* StateMachine.push_indent(level)
push_indent(m, level) ==
  IF level > current_indent(m)
  THEN [sm |-> [m EXCEPT !.indent_stack = Append(@, level)],
        result |-> Ok(PyNone)]
  ELSE [sm |-> m, result |-> Err("TOONDecodeError", "must be greater than")]

\* StateMachine.pop_indent()
pop_indent(m) ==
  IF Len(m.indent_stack) > 1
  THEN [sm |-> [m EXCEPT !.indent_stack = SubSeq(@, 1, Len(@) - 1)],
        result |-> Ok(PyInt(current_indent(m)))]
  ELSE [sm |-> m,
        result |-> Err("TOONDecodeError", "Cannot pop base indentation")]

\* StateMachine.push_context(context)
push_context(m, context) ==
  [sm |-> [m EXCEPT !.context_stack = Append(@, context)],
   result |-> Ok(PyNone)]

\* StateMachine.pop_context()
pop_context(m) ==
  IF Len(m.context_stack) > 0
  THEN [sm |-> [m EXCEPT !.context_stack = SubSeq(@, 1, Len(@) - 1)],
        result |-> Ok(PyStr(m.context_stack[Len(m.context_stack)]))]
  ELSE [sm |-> m,
        result |-> Err("TOONDecodeError", "Cannot pop from empty context")]

\* StateMachine.reset()
reset(m) == [sm |-> StateMachine, result |-> Ok(PyNone)]

\* validate_indent(indent): a positive indent passes, whatever its size.
validate_indent(indent) ==
  IF indent >= MIN_INDENT THEN Ok(PyNone)
  ELSE Err("ValueError", "indent must be a positive integer")

(***************************************************************************)
(* Validator: the checks of the decoder.  A validator is its mode and the  *)
(* warnings it has collected; a check returns the validator after it and   *)
(* None or the error raised.                                               *)
(***************************************************************************)
ValidationWarning(message, line, column) ==
  [message |-> message, line |-> line, column |-> column]

\* Validator(strict): no warnings yet.
Validator(strict) == [strict |-> strict, warnings |-> <<>>]

passed(v) == [validator |-> v, result |-> Ok(PyNone)]

\* Variant of report: the warning is recorded in strict mode as well.
report_and_record(v, message, line, column) ==
  [validator |->
     [v EXCEPT !.warnings = Append(@, ValidationWarning(message, line, column))],
   result |-> IF v.strict
              THEN DErr("TOONValidationError", message, line, column)
              ELSE Ok(PyNone)]

\* A violation: raised in strict mode, appended to the warnings otherwise.
report(v, message, line, column) ==
  IF v.strict
  THEN [validator |-> v,
        result |-> DErr("TOONValidationError", message, line, column)]
  ELSE [validator |->
          [v EXCEPT !.warnings =
                      Append(@, ValidationWarning(message, line, column))],
        result |-> Ok(PyNone)]

validate_array_length(v, declared, actual, line, column) ==
  IF declared # actual
  THEN report(v, "Array length mismatch", line, column)
  ELSE passed(v)

validate_field_consistency(v, expected, actual, row, line, column) ==
  IF Len(expected) # Len(actual)
  THEN report(v, "Field count mismatch", line, column)
  ELSE IF expected # actual
  THEN report(v, "Field name mismatch", line, column)
  ELSE passed(v)

validate_field_count(v, expected, actual, row, line, column) ==
  IF expected # actual
  THEN report(v, "Value count mismatch", line, column)
  ELSE passed(v)

validate_not_empty(v, value, name, line, column) ==
  IF value = <<>>
  THEN report(v, "Required field is empty", line, column)
  ELSE passed(v)

validate_no_duplicate_keys(v, key, existing, line, column) ==
  IF key \in existing
  THEN report(v, "Duplicate key", line, column)
  ELSE passed(v)

validate_indent_consistency(v, indent, indent_size, line, column) ==
  IF indent % indent_size # 0
  THEN report(v, "Inconsistent indentation", line, column)
  ELSE passed(v)

validate_positive_integer(v, value, name, line, column) ==
  IF value < 0
  THEN report(v, "must be non-negative", line, column)
  ELSE passed(v)

\* validator.<c.method>(...) for a call c of one of the checks.
validate(v, c) ==
  CASE c.method = "validate_array_length" ->
         validate_array_length(v, c.declared, c.actual, c.line, c.column)
    [] c.method = "validate_field_consistency" ->
         validate_field_consistency(v, c.expected, c.actual, c.row, c.line,
                                    c.column)
    [] c.method = "validate_field_count" ->
         validate_field_count(v, c.expected, c.actual, c.row, c.line, c.column)
    [] c.method = "validate_not_empty" ->
         validate_not_empty(v, c.value, c.name, c.line, c.column)
    [] c.method = "validate_no_duplicate_keys" ->
         validate_no_duplicate_keys(v, c.key, c.existing, c.line, c.column)
    [] c.method = "validate_indent_consistency" ->
         validate_indent_consistency(v, c.indent, c.indent_size, c.line,
                                     c.column)
    [] c.method = "validate_positive_integer" ->
         validate_positive_integer(v, c.value, c.name, c.line, c.column)

clear_warnings(v) == [v EXCEPT !.warnings = <<>>]

(***************************************************************************)
(* Public API                                                              *)
(***************************************************************************)
\* encode(value, indent=.., delimiter=.., sort_keys=..): the text, or the
\* error raised.  The encoder consults the global registry.
encode(value, cfg, handlers) == Encoder_encode(value, cfg, handlers)

\* What decode hands back for the decoder's result r: the value and
\* nothing else, or the error raised.
Returned(r) == IF r.ok THEN Ok(r.value) ELSE r

\* Variant of decode: the value comes back with a list of warnings.
with_warnings(r) ==
  IF r.ok THEN [ok |-> TRUE, value |-> r.value, warnings |-> <<>>] ELSE r

decode_with_warnings(toon_string, strict) ==
  with_warnings(Decoder_decode(toon_string, strict))

\* decode(toon_string, strict=..).
decode(toon_string, strict) == Returned(Decoder_decode(toon_string, strict))

(***************************************************************************)
(* Inputs.  A behaviour works on one argument of the caller: a value to    *)
(* encode under a configuration, or a text to decode.                      *)
(***************************************************************************)
MaxItems == 2
MaxInt == 2
MaxHandlers == 4
MaxDeclared == 3
MaxRuns == 2

\* Calls of _set_nested on one dict.
MaxEntries == 3

\* Indentation levels and contexts on the stacks of the state machine.
MaxLevels == 2

k_k == <<"k">>
k_id == <<"i", "d">>

SampleStrings ==
  {<<"a">>, <<"b", ",", "c">>, <<"a", "|", "b">>, <<"x", SP, "y">>, <<>>,
   s_true, <<"a", TAB, "b">>, <<"1", "2">>}

Scalars ==
  {PyNone, PyBool(TRUE), PyBool(FALSE)}
  \cup {PyInt(n) : n \in -1..MaxInt}
  \cup {PyStr(x) : x \in SampleStrings}

Leaves == {PyInt(1), PyBool(TRUE), PyStr(<<"a">>), PyStr(<<"b", ",", "c">>)}

SeqsUpTo(S, n) == UNION {[1..m -> S] : m \in 0..n}

LeafLists == {PyList(xs) : xs \in SeqsUpTo(Leaves, MaxItems)}

LeafDicts ==
  {PyDict(<<>>)}
  \cup {PyDict(<<<<k, v>>>>) : k \in {k_k, k_id}, v \in Leaves}
  \cup {PyDict(<<<<k_k, v>>, <<k_id, w>>>>) : v \in Leaves, w \in {PyInt(1), PyInt(2)}}

Rows == {PyDict(<<<<k_k, v>>, <<k_id, PyInt(n)>>>>) :
           v \in {PyStr(<<"a">>), PyStr(<<"a", "|", "b">>)}, n \in 1..2}

Tables == {PyList(xs) : xs \in SeqsUpTo(Rows, MaxItems)}

Flat == LeafLists \cup LeafDicts \cup Tables

Nested ==
  {PyDict(<<<<k_k, c>>>>) : c \in Flat}
  \cup {PyList(<<c>>) : c \in Flat}
  \cup {PyList(<<PyInt(1), c>>) : c \in LeafDicts}
  \cup {PyDict(<<<<k_id, PyInt(1)>>, <<k_k, PyDict(<<<<k_k, c>>>>)>>>>) :
          c \in {PyDict(<<>>), PyList(<<>>), PyList(<<PyInt(1), PyInt(2)>>)}}

DataModelValues == Scalars \cup Flat \cup Nested

\* Python values outside the data model.
Foreign ==
  {PySet(<<1, 2, 3>>), PySet(<<>>), PyTuple(<<1, 2>>), PyObject("uuid"),
   PyObject("point"), PyObject("custom")}

ForeignValues ==
  Foreign
  \cup {PyDict(<<<<k_id, f>>>>) : f \in Foreign}
  \cup {PyList(<<PyInt(1), f>>) : f \in Foreign}

Cfg(indent, delimiter, sort_keys) ==
  [indent |-> indent, delimiter |-> delimiter, sort_keys |-> sort_keys]

Configs ==
  {Cfg(DEFAULT_INDENT, ",", FALSE), Cfg(DEFAULT_INDENT, "|", FALSE),
   Cfg(DEFAULT_INDENT, TAB, FALSE), Cfg(4, ",", TRUE), Cfg(0, ",", FALSE)}

\* Documents with an array header declaring n items and holding m: at the
\* root or under the key k, in inline, tabular and list form.
Items(m) == [i \in 1..m |-> NatToStr(i)]

Doc(ls) == Join(ls, <<NL>>)

Bracket(n) == <<"[">> \o NatToStr(n) \o <<"]">>

InlineDoc(key, n, m) ==
  key \o Bracket(n) \o <<":">> \o
  (IF m = 0 THEN <<>> ELSE <<SP>> \o Join(Items(m), <<",">>))

TabularDoc(key, n, m) ==
  Doc(<<key \o Bracket(n) \o <<"{", "i", "d", "}", ":">>>> \o
      [i \in 1..m |-> Pad(DEFAULT_INDENT, 1) \o NatToStr(i)])

ListDoc(key, n, m) ==
  Doc(<<key \o Bracket(n) \o <<":">>>> \o
      [i \in 1..m |-> Pad(DEFAULT_INDENT, 1) \o <<"-", SP>> \o NatToStr(i)])

Forms == {"inline", "tabular", "list"}

CountDoc(form, key, n, m) ==
  CASE form = "inline" -> InlineDoc(key, n, m)
    [] form = "tabular" -> TabularDoc(key, n, m)
    [] form = "list" -> ListDoc(key, n, m)

\* What the documents are about: the form, the key, the declared length
\* and the number of items present.
CountCases ==
  [form : Forms, key : {<<>>, k_k}, n : 0..MaxDeclared, m : 0..MaxDeclared]

CountDocs == {CountDoc(c.form, c.key, c.n, c.m) : c \in CountCases}

\* Documents with two keys at one object level: at the root, in a nested
\* object, in an object written as a list item.
Pair(key, n) == key \o <<":", SP>> \o NatToStr(n)

k_p == <<"p">>

\* "k: v" followed by "key: w" at the level named by where.
TwoKeyDoc(where, key, v, w) ==
  CASE where = "root" -> Doc(<<Pair(k_k, v), Pair(key, w)>>)
    [] where = "nested" ->
         Doc(<<k_p \o <<":">>, Pad(DEFAULT_INDENT, 1) \o Pair(k_k, v),
               Pad(DEFAULT_INDENT, 1) \o Pair(key, w)>>)
    [] where = "item" ->
         Doc(<<Bracket(1) \o <<":">>,
               Pad(DEFAULT_INDENT, 1) \o <<"-", SP>> \o Pair(k_k, v),
               Pad(DEFAULT_INDENT, 2) \o Pair(key, w)>>)

Levels == {"root", "nested", "item"}

TwoKeyDocs ==
  {TwoKeyDoc(where, key, v, w) :
     where \in Levels, key \in {k_k, k_id}, v \in 1..2, w \in 1..2}

\* Malformed array headers.
BadHeaderDocs ==
  {<<"[", "a", "b", "c", "]", ":">>,
   <<"[", "-", "1", "]", ":">>,
   <<"k", "[", "x", "]", ":", SP, "1">>,
   <<"[", "1", "x", "]", ":", SP, "1">>,
   <<"p", ":", NL, SP, SP, "k", "[", "]", ":", SP, "1">>,
   <<"[", "1", "]", ":", NL, SP, SP, "-", SP, "[", "y", "]", ":", SP, "1">>}

\* Quoted strings that are never closed.
UnterminatedDocs ==
  {<<DQ, "a", "b", "c">>,
   <<"k", ":", SP, DQ, "a", "b", "c">>,
   <<"[", "2", "]", ":", SP, DQ, "a", ",", "1">>,
   <<DQ, "k", ":", SP, "1">>,
   <<"[", "1", "]", "{", "i", "d", "}", ":", NL, SP, SP, DQ, "x">>,
   <<"p", ":", NL, SP, SP, "k", ":", SP, DQ, "a", BS, DQ>>}

\* Lines indented more than one level deeper than the line they follow.
IndentJumpDocs ==
  {<<"k", ":", SP, "1", NL, SP, SP, SP, SP, "i", "d", ":", SP, "2">>,
   <<"p", ":", NL, SP, SP, SP, SP, SP, SP, "k", ":", SP, "1">>,
   <<"p", ":", NL, SP, SP, "k", ":", SP, "1", NL, SP, SP, SP, SP, SP, SP, "i", "d", ":", SP, "2">>,
   <<"k", "[", "1", "]", ":", NL, SP, SP, SP, SP, SP, SP, "-", SP, "1">>,
   <<"[", "1", "]", ":", NL, SP, SP, "-", SP, "k", ":", SP, "1", NL, SP, SP, SP, SP, SP, SP, SP, SP, "i", "d", ":", SP, "2">>,
   <<"k", ":", SP, "1", NL, SP, SP, "i", "d", ":", SP, "2">>}

SyntaxErrorDocs == BadHeaderDocs \cup UnterminatedDocs \cup IndentJumpDocs

OtherDocs ==
  {<<>>,
   <<SP, SP>>,
   <<"k", ":">>,
   <<"k", ":", NL, SP, SP, "i", "d", ":">>,
   <<"k", ":", SP, "a", "r", "r", "a", "y", "[", "3", "]", ":", SP, "1", ",", "2", ",", "3">>,
   <<"p", ":", NL, SP, SP, SP, "k", ":", SP, "1">>,
   <<"n", "u", "l", "l">>,
   <<"t", "r", "u", "e">>,
   <<"-", "1">>,
   <<DQ, "a", ",", "b", DQ>>,
   <<"a", SP, "b">>,
   <<"[", "2", "]", ":", SP, "a", ",", DQ, "b", ",", "c", DQ>>,
   <<"[", "2", "]", ":", SP, "1", "|", "2">>,
   <<"[", "2", "|", "]", ":", SP, "a", ",", "b", "|", "c">>,
   <<"[", "2", "]", ":", NL, "-", NL, "-">>,
   <<"[", "2", "]", ":", NL, "-", SP, "[", "1", "]", ":", SP, "1", NL, "-", SP, "k", ":", SP, "1">>,
   <<"k", ":", SP, "1", NL, NL, "i", "d", ":", SP, DQ, "x", SP, "y", DQ>>,
   <<"[", "1", "]", "{", "i", "d", ",", "k", "}", ":", NL, SP, SP, "1">>,
   <<"[", "1", "]", "{", "i", "d", "}", ":", NL, SP, SP, "1", ",", "2">>,
   <<DQ, "k", SP, "k", DQ, ":", SP, "1">>}

Texts == CountDocs \cup TwoKeyDocs \cup SyntaxErrorDocs \cup OtherDocs

\* Values nested up to MaxDeep containers deep, one container inside the
\* other: objects or arrays.
MaxDeep == MAX_NESTING_DEPTH + 2

RECURSIVE DictChain(_)
DictChain(n) ==
  IF n = 0 THEN PyInt(1) ELSE PyDict(<<<<k_k, DictChain(n - 1)>>>>)

RECURSIVE ListChain(_)
ListChain(n) == IF n = 0 THEN PyInt(1) ELSE PyList(<<ListChain(n - 1)>>)

Chain(shape, n) == IF shape = "dict" THEN DictChain(n) ELSE ListChain(n)

Shapes == {"dict", "list"}

ChainArgs ==
  {[kind |-> "value", value |-> Chain(shape, n), cfg |-> cfg] :
     shape \in Shapes, n \in 0..MaxDeep, cfg \in Configs}

\* Arrays of every form, at the root and under a key: scalars, empty and
\* non-empty objects, objects holding containers, and arrays as elements.
Elements ==
  {PyInt(1), PyStr(<<"a">>), PyDict(<<>>), PyDict(<<<<k_k, PyInt(1)>>>>),
   PyDict(<<<<k_id, PyInt(1)>>>>), PyDict(<<<<k_k, PyList(<<>>)>>>>),
   PyDict(<<<<k_k, PyDict(<<>>)>>>>), PyList(<<>>), PyList(<<PyInt(1)>>)}

Arrays == SeqsUpTo(Elements, MaxItems)

\* Elements of arrays of objects: the same keys in either insertion order,
\* fewer keys, no keys, a container as a value, and a scalar.
TableElements ==
  {PyDict(<<<<k_k, PyInt(1)>>, <<k_id, PyInt(1)>>>>),
   PyDict(<<<<k_id, PyInt(2)>>, <<k_k, PyStr(<<"a">>)>>>>),
   PyDict(<<<<k_k, PyInt(1)>>>>), PyDict(<<>>),
   PyDict(<<<<k_k, PyDict(<<>>)>>>>),
   PyDict(<<<<k_k, PyInt(1)>>, <<k_id, PyList(<<>>)>>>>), PyInt(1)}

FormValues ==
  {PyList(xs) : xs \in Arrays} \cup {PyDict(<<<<k_k, PyList(xs)>>>>) : xs \in Arrays}
  \cup {PyList(xs) : xs \in SeqsUpTo(TableElements, MaxItems)}

\* Floats: mantissas with and without trailing zeros, exponents from
\* -MaxFraction to MaxExponent, both signs, and the three special values.
MaxFraction == 5
MaxExponent == 6

Mantissas == {0, 1, 3}

MidMantissas == {5, 25, 30, 31}

LongMantissas == {310, 314}

FloatValues ==
  {PyFloat(neg, m, e) :
     neg \in BOOLEAN, m \in Mantissas, e \in (-MaxFraction)..MaxExponent}
  \cup {PyFloat(neg, m, e) :
          neg \in BOOLEAN, m \in MidMantissas,
          e \in (-MaxFraction)..(MaxExponent - 2)}
  \cup {PyFloat(neg, m, e) :
          neg \in BOOLEAN, m \in LongMantissas, e \in (-MaxFraction)..0}
  \cup {PySpecialFloat(kind) : kind \in {"nan", "inf", "-inf"}}

\* Strings for the quoting rule: one or more for each of its clauses, and
\* strings none of them covers.
QuotingSamples ==
  {<<>>, s_true, s_false, s_null, <<"T", "r", "u", "e">>, <<"N", "U", "L", "L">>,
   <<"4", "2">>, <<"0">>, <<"-", "1", "0">>, <<"3", ".", "1", "4">>,
   <<"-", "0", ".", "5">>, <<"4", "2", "p", "x">>, <<"1", "e", "6">>,
   <<"0", "0", "7">>, <<".", "5">>, <<"-", "i", "t", "e", "m">>, <<"-">>,
   <<"a", ",", "b">>, <<"a", "|", "b">>, <<"a", TAB, "b">>, <<",">>,
   <<SP, "a">>, <<"a", SP>>, <<TAB, "a">>, <<SP>>, <<"a", SP, "b">>,
   <<"-", SP, "a">>, <<"k", ":", "v">>, <<"[", "5", "]">>, <<"a", "]">>,
   <<"{", "k", "}">>, <<"a", "{">>, <<"a", "}">>, <<"a", NL, "b">>,
   <<"a", "\r", "b">>, <<"a", BS, "b">>, <<"a", DQ, "b">>, <<"a">>, <<"_">>,
   <<"_", "p">>, <<"a", ".", "b">>, <<"a", "-", "b">>, <<"v", "1">>}

Delimiters == {",", TAB, "|"}

StringArgs ==
  {[kind |-> "string", text |-> t, delimiter |-> d] :
     t \in QuotingSamples, d \in Delimiters}

\* Objects whose only key is also the value.
SameKeyValue == {PyDict(<<<<x, PyStr(x)>>>>) : x \in QuotingSamples}

\* The arrays of every form are encoded with the comma and with the pipe.
FormConfigs == {Cfg(DEFAULT_INDENT, ",", FALSE), Cfg(DEFAULT_INDENT, "|", FALSE)}

\* Arrays whose strings hold a delimiter character other than d: the
\* encoder leaves these strings unquoted.
OtherDelimiterString(d) ==
  IF d = "," THEN PyStr(<<"a", "|", "b">>) ELSE PyStr(<<"b", ",", "c">>)

DelimiterValues(d) ==
  {PyList(<<OtherDelimiterString(d)>>),
   PyList(<<OtherDelimiterString(d), PyInt(1)>>),
   PyList(<<PyDict(<<<<k_k, OtherDelimiterString(d)>>>>)>>),
   PyList(<<PyDict(<<<<k_k, OtherDelimiterString(d)>>, <<k_id, PyInt(1)>>>>)>>)}

ValueArgs ==
  {[kind |-> "value", value |-> v, cfg |-> cfg] :
     v \in DataModelValues \cup ForeignValues \cup SameKeyValue \cup FloatValues,
     cfg \in Configs}
  \cup {[kind |-> "value", value |-> v, cfg |-> cfg] :
          v \in FormValues, cfg \in FormConfigs}
  \cup UNION {{[kind |-> "value", value |-> v, cfg |-> cfg] :
                  v \in DelimiterValues(cfg.delimiter)} : cfg \in FormConfigs}

\* The values handlers are registered for: the values outside the data
\* model, alone and inside a container, and the scalars.
RegistryValues == ForeignValues \cup Scalars

TextArgs == {[kind |-> "text", text |-> t] : t \in Texts}

\* Keys for the key-folding engine: two foldable ones, a dotted one and one
\* with a leading underscore.
key_a == <<"a">>

key_b == <<"b">>

key_a_b == <<"a", ".", "b">>

key__p == <<"_", "p">>

FoldKeys == {key_a, key_b, key_a_b, key__p}

Wrapper(k, v) == PyDict(<<<<k, v>>>>)

TwoKeys(v, w) == PyDict(<<<<key_a, v>>, <<key_b, w>>>>)

FoldLeaves == {PyInt(1), PyDict(<<>>)}

\* Objects of one, two and three levels: chains of single-key wrappers,
\* ending in a leaf, a two-key object or a list of objects.
Objects1 ==
  {Wrapper(k, v) : k \in FoldKeys, v \in FoldLeaves}
  \cup {TwoKeys(v, w) : v, w \in FoldLeaves}

Objects2 ==
  {Wrapper(k, o) : k \in FoldKeys, o \in Objects1}
  \cup {TwoKeys(o, PyInt(1)) : o \in Objects1}
  \cup {Wrapper(key_a, PyList(<<o>>)) : o \in Objects1}

Objects3 ==
  {Wrapper(k, o) : k \in FoldKeys, o \in Objects2}
  \cup {TwoKeys(Wrapper(key_a, o), Wrapper(key_b, o)) : o \in Objects1}

ObjectArgs ==
  {[kind |-> "object", value |-> o] :
     o \in {PyDict(<<>>)} \cup Objects1 \cup Objects2 \cup Objects3}

\* Keys for the path expander: plain ones, and dotted ones that share
\* segments.
PathKeys ==
  {key_a, key_b, key_a_b, <<"a", ".", "a">>, <<"a", ".", "b", ".", "a">>}

ExpanderArgs == {[kind |-> "expander"]}

\* Indentation levels and contexts for the state machine.
IndentLevels == {DEFAULT_INDENT * n : n \in 1..MaxLevels}

\* Indentations of a line: negative, on a level, between two levels.
Indents == (-1)..(DEFAULT_INDENT * MaxLevels)

Contexts == {"object", "array"}

MachineArgs == {[kind |-> "machine"]}

\* Indent widths: below, inside and above MIN_INDENT..MAX_INDENT.
IndentWidths == (-1)..(MAX_INDENT + 1) \cup {100}

IndentArgs == {[kind |-> "indent", indent |-> n] : n \in IndentWidths}

\* The calls made on a validator: for every check one that passes and the
\* ones that do not.
MaxWarnings == 2

Checks ==
  {[method |-> "validate_array_length", declared |-> 3, actual |-> a,
    line |-> p[1], column |-> p[2]] :
     a \in {2, 3}, p \in {<<1, 1>>, <<5, 10>>}}
  \cup {[method |-> "validate_field_consistency", expected |-> <<k_id, k_k>>,
          actual |-> a, row |-> 0, line |-> 2, column |-> 1] :
           a \in {<<k_id, k_k>>, <<k_id>>, <<k_id, k_p>>, <<k_k, k_id>>}}
  \cup {[method |-> "validate_field_count", expected |-> 3, actual |-> a,
          row |-> 2, line |-> 5, column |-> 1] : a \in {3, 4}}
  \cup {[method |-> "validate_not_empty", value |-> x, name |-> k_k,
          line |-> 3, column |-> 10] : x \in {<<>>, <<"a">>}}
  \cup {[method |-> "validate_no_duplicate_keys", key |-> k_k,
          existing |-> e, line |-> 5, column |-> 1] :
           e \in {{k_k}, {k_id, k_p}}}
  \cup {[method |-> "validate_indent_consistency", indent |-> n,
          indent_size |-> DEFAULT_INDENT, line |-> 3, column |-> 1] :
           n \in {3, 4}}
  \cup {[method |-> "validate_positive_integer", value |-> n, name |-> k_k,
          line |-> 2, column |-> 3] : n \in {-1, 0}}

ValidatorArgs == {[kind |-> "validator", strict |-> b] : b \in BOOLEAN}

\* The texts whose scanned lines a cursor walks: none, one, two and three
\* lines, at depths up to two.
CursorTexts ==
  {<<>>,
   <<"a", ":", SP, "1">>,
   <<"a", ":", NL, SP, SP, "b", ":", SP, "1">>,
   <<"a", ":", NL, SP, SP, "b", ":", NL, SP, SP, SP, SP, "c", ":", SP, "1">>,
   <<"a", ":", NL, SP, SP, "b", ":", SP, "1", NL, NL, "c", ":", SP, "2">>}

CursorArgs ==
  {[kind |-> "cursor", lines |-> scan_lines(t, DEFAULT_INDENT, TRUE).lines] :
     t \in CursorTexts}

Depths == 0..MaxLevels

\* The indent sizes lines are scanned with.
IndentSizes == {DEFAULT_INDENT, 2 * DEFAULT_INDENT}

\* The texts the decoder is run on step by step: the documents above and
\* the encoder's output for the values of the data model.
RunTexts ==
  Texts
  \cup {encode(v, Cfg(DEFAULT_INDENT, ",", FALSE), BuiltinHandlers).value :
          v \in DataModelValues \cup FormValues}

RunArgs ==
  {[kind |-> "run", text |-> t, strict |-> b] : t \in RunTexts, b \in BOOLEAN}

(***************************************************************************)
(* The library as a state machine: the global registry, the argument the   *)
(* caller holds, the last call with what it returned or raised, and the    *)
(* parser state machine the caller drives.                                 *)
(***************************************************************************)
VARIABLES handlers, arg, call, sm, validator, cursor, run

vars == <<handlers, arg, call, sm, validator, cursor, run>>

Init ==
  /\ handlers = BuiltinHandlers
  /\ arg \in ValueArgs \cup ChainArgs \cup TextArgs \cup StringArgs
               \cup ObjectArgs \cup ExpanderArgs \cup MachineArgs
               \cup IndentArgs \cup ValidatorArgs \cup CursorArgs
  /\ call = [op |-> "none"]
  /\ sm = StateMachine
  /\ validator = Validator(IF arg.kind = "validator" THEN arg.strict ELSE TRUE)
  /\ cursor = LineCursor(IF arg.kind = "cursor" THEN arg.lines ELSE <<>>)
  /\ run = [status |-> "ready", stack |-> <<>>]

\* encode(arg.value, **arg.cfg)
Encode ==
  /\ arg.kind = "value"
  /\ call' = [op |-> "encode", handlers |-> handlers,
              result |-> encode(arg.value, arg.cfg, handlers)]
  /\ UNCHANGED <<handlers, arg, sm, validator, cursor, run>>

\* decode(arg.text, strict=strict)
Decode(strict) ==
  /\ arg.kind = "text"
  /\ call' = [op |-> "decode", text |-> arg.text, strict |-> strict,
              result |-> decode(arg.text, strict)]
  /\ UNCHANGED <<handlers, arg, sm, validator, cursor, run>>

\* decode(encode(arg.value, **arg.cfg), strict=strict): the text the last
\* call produced is decoded.
DecodeEncoded(strict) ==
  /\ call.op = "encode"
  /\ call.result.ok
  /\ call' = [op |-> "decode", text |-> call.result.value, strict |-> strict,
              result |-> decode(call.result.value, strict)]
  /\ UNCHANGED <<handlers, arg, sm, validator, cursor, run>>

\* TabularAnalyzer().analyze(arg.value), once more on the same array when
\* the last call was an analysis.
Analyze ==
  /\ arg.kind = "value"
  /\ arg.value.t = "list"
  /\ call.op = "analyze" => call.runs < MaxRuns
  /\ call' = [op |-> "analyze",
              runs |-> IF call.op = "analyze" THEN call.runs + 1 ELSE 1,
              previous |-> IF call.op = "analyze" THEN <<call.result>> ELSE <<>>,
              result |-> analyze(arg.value.xs)]
  /\ UNCHANGED <<handlers, arg, sm, validator, cursor, run>>

\* QuotingEngine.needs_quoting(arg.text, arg.delimiter)
NeedsQuoting ==
  /\ arg.kind = "string"
  /\ call' = [op |-> "needs_quoting",
              result |-> needs_quoting(arg.text, arg.delimiter)]
  /\ UNCHANGED <<handlers, arg, sm, validator, cursor, run>>

\* KeyFoldingEngine().fold(arg.value)
Fold ==
  /\ arg.kind = "object"
  /\ call' = [op |-> "fold", result |-> fold(arg.value)]
  /\ UNCHANGED <<handlers, arg, sm, validator, cursor, run>>

\* PathExpander().expand(folded) or .expand_recursive(folded) on the dict
\* the last call folded.
Expand(recursive) ==
  /\ call.op = "fold"
  /\ call' = [op |-> "expand", recursive |-> recursive, data |-> call.result,
              result |-> IF recursive THEN expand_recursive(call.result)
                         ELSE expand(call.result)]
  /\ UNCHANGED <<handlers, arg, sm, validator, cursor, run>>

\* The dict the calls of _set_nested so far have built.
Built == IF call.op = "set_nested" THEN call.data ELSE <<>>

Entries == IF call.op = "set_nested" THEN call.entries ELSE <<>>

\* PathExpander()._set_nested(data, key, value) on the dict built so far;
\* the n-th call sets the value n.  A call that raises leaves the dict as
\* it was.
SetNested(key) ==
  /\ arg.kind = "expander"
  /\ call.op \in {"none", "set_nested"}
  /\ Len(Entries) < MaxEntries
  /\ call' = [op |-> "set_nested",
              entries |-> Append(Entries, <<key, PyInt(Len(Entries) + 1)>>),
              before |-> Built,
              data |-> IF set_nested(Built, key, PyInt(Len(Entries) + 1)).ok
                       THEN set_nested(Built, key, PyInt(Len(Entries) + 1)).value
                       ELSE Built,
              result |-> set_nested(Built, key, PyInt(Len(Entries) + 1))]
  /\ UNCHANGED <<handlers, arg, sm, validator, cursor, run>>

\* PathExpander().validate_no_conflicts(data) on the flat dict of the
\* entries given so far, when no key occurs twice among them.
ValidateNoConflicts ==
  /\ call.op = "set_nested"
  /\ \A i, j \in 1..Len(call.entries) :
       call.entries[i][1] = call.entries[j][1] => i = j
  /\ call' = [op |-> "validate", data |-> PyDict(call.entries),
              result |-> validate_no_conflicts(PyDict(call.entries))]
  /\ UNCHANGED <<handlers, arg, sm, validator, cursor, run>>

\* sm.transition_to(new_state)
TransitionTo(new_state) ==
  /\ arg.kind = "machine"
  /\ sm' = transition_to(sm, new_state).sm
  /\ call' = [op |-> "transition_to", from |-> sm.state, to |-> new_state,
              result |-> transition_to(sm, new_state).result]
  /\ UNCHANGED <<handlers, arg, validator, cursor, run>>

\* sm.push_indent(level)
PushIndent(level) ==
  /\ arg.kind = "machine"
  /\ Len(sm.indent_stack) <= MaxLevels
  /\ sm' = push_indent(sm, level).sm
  /\ call' = [op |-> "push_indent", result |-> push_indent(sm, level).result]
  /\ UNCHANGED <<handlers, arg, validator, cursor, run>>

\* sm.check_dedent(indent)
CheckDedent(indent) ==
  /\ arg.kind = "machine"
  /\ sm' = check_dedent(sm, indent).sm
  /\ call' = [op |-> "check_dedent", indent |-> indent,
              result |-> check_dedent(sm, indent).result]
  /\ UNCHANGED <<handlers, arg, validator, cursor, run>>

\* sm.pop_indent()
PopIndent ==
  /\ arg.kind = "machine"
  /\ sm' = pop_indent(sm).sm
  /\ call' = [op |-> "pop_indent", result |-> pop_indent(sm).result]
  /\ UNCHANGED <<handlers, arg, validator, cursor, run>>

\* sm.push_context(context)
PushContext(context) ==
  /\ arg.kind = "machine"
  /\ Len(sm.context_stack) < MaxLevels
  /\ sm' = push_context(sm, context).sm
  /\ call' = [op |-> "push_context", result |-> push_context(sm, context).result]
  /\ UNCHANGED <<handlers, arg, validator, cursor, run>>

\* sm.pop_context()
PopContext ==
  /\ arg.kind = "machine"
  /\ sm' = pop_context(sm).sm
  /\ call' = [op |-> "pop_context", result |-> pop_context(sm).result]
  /\ UNCHANGED <<handlers, arg, validator, cursor, run>>

\* sm.reset()
Reset ==
  /\ arg.kind = "machine"
  /\ sm' = reset(sm).sm
  /\ call' = [op |-> "reset", result |-> reset(sm).result]
  /\ UNCHANGED <<handlers, arg, validator, cursor, run>>

\* validate_indent(arg.indent)
ValidateIndent ==
  /\ arg.kind = "indent"
  /\ call' = [op |-> "validate_indent", result |-> validate_indent(arg.indent)]
  /\ UNCHANGED <<handlers, arg, sm, validator, cursor, run>>

\* validator.<c.method>(...): one check of a validator made with
\* Validator(strict=arg.strict).
Validate(c) ==
  /\ arg.kind = "validator"
  /\ Len(validator.warnings) < MaxWarnings
  /\ validator' = validate(validator, c).validator
  /\ call' = [op |-> "check", check |-> c,
              result |-> validate(validator, c).result]
  /\ UNCHANGED <<handlers, arg, sm, cursor, run>>

\* validator.clear_warnings()
ClearWarnings ==
  /\ arg.kind = "validator"
  /\ validator' = clear_warnings(validator)
  /\ call' = [op |-> "clear_warnings"]
  /\ UNCHANGED <<handlers, arg, sm, cursor, run>>

\* cursor.peek()
Peek ==
  /\ arg.kind = "cursor"
  /\ call' = [op |-> "peek", position |-> cursor.position,
              result |-> peek(cursor)]
  /\ UNCHANGED <<handlers, arg, sm, validator, cursor, run>>

\* cursor.peek_at_depth(depth)
PeekAtDepth(depth) ==
  /\ arg.kind = "cursor"
  /\ call' = [op |-> "peek_at_depth", position |-> cursor.position,
              depth |-> depth, result |-> peek_at_depth(cursor, depth)]
  /\ UNCHANGED <<handlers, arg, sm, validator, cursor, run>>

\* cursor.at_end()
AtEnd ==
  /\ arg.kind = "cursor"
  /\ call' = [op |-> "at_end", position |-> cursor.position,
              result |-> PyBool(at_end(cursor))]
  /\ UNCHANGED <<handlers, arg, sm, validator, cursor, run>>

\* cursor.next()
CursorNext ==
  /\ arg.kind = "cursor"
  /\ cursor' = next(cursor).cursor
  /\ call' = [op |-> "next", position |-> cursor.position,
              result |-> next(cursor).result]
  /\ UNCHANGED <<handlers, arg, sm, validator, run>>

\* cursor.advance()
Advance ==
  /\ arg.kind = "cursor"
  /\ cursor' = advance(cursor)
  /\ call' = [op |-> "advance", position |-> cursor.position]
  /\ UNCHANGED <<handlers, arg, sm, validator, run>>

\* scan_lines(arg.text, indent_size=indent_size, strict=strict)
ScanLines(indent_size, strict) ==
  /\ arg.kind = "text"
  /\ call' = [op |-> "scan_lines", indent_size |-> indent_size,
              strict |-> strict,
              result |-> scan_lines(arg.text, indent_size, strict)]
  /\ UNCHANGED <<handlers, arg, sm, validator, cursor, run>>

\* register_type_handler(h): the handler goes to the front of the global
\* registry.  Only encode consults the registry, so registrations are
\* followed in the behaviours that hold one of RegistryValues to encode.
RegisterTypeHandler(h) ==
  /\ arg.kind = "value"
  /\ arg.value \in RegistryValues
  /\ Len(handlers) < MaxHandlers
  /\ handlers' = register(handlers, h)
  /\ UNCHANGED <<arg, call, sm, validator, cursor, run>>

Next ==
  \/ Encode
  \/ \E strict \in BOOLEAN : Decode(strict)
  \/ \E strict \in BOOLEAN : DecodeEncoded(strict)
  \/ \E h \in UserHandlers : RegisterTypeHandler(h)
  \/ Analyze
  \/ NeedsQuoting
  \/ Fold
  \/ \E recursive \in BOOLEAN : Expand(recursive)
  \/ \E key \in PathKeys : SetNested(key)
  \/ ValidateNoConflicts
  \/ \E new_state \in ParserState : TransitionTo(new_state)
  \/ \E level \in IndentLevels : PushIndent(level)
  \/ PopIndent
  \/ \E indent \in Indents : CheckDedent(indent)
  \/ \E context \in Contexts : PushContext(context)
  \/ PopContext
  \/ Reset
  \/ ValidateIndent
  \/ \E c \in Checks : Validate(c)
  \/ ClearWarnings
  \/ Peek
  \/ \E depth \in Depths : PeekAtDepth(depth)
  \/ AtEnd
  \/ CursorNext
  \/ Advance
  \/ \E indent_size \in IndentSizes, strict \in BOOLEAN :
       ScanLines(indent_size, strict)

Spec == Init /\ [][Next]_vars

(***************************************************************************)
(* Properties                                                              *)
(***************************************************************************)
ValidCfg(cfg) == cfg.indent >= MIN_INDENT

\* The call raised an error of the kind and returned nothing.
Raised(r, kind) == ~r.ok /\ r.error = kind /\ "value" \notin DOMAIN r

Registered(h) == \E i \in 1..Len(call.handlers) : call.handlers[i] = h

\* Python's ==: True equals 1, the order of an object's keys is immaterial.
AsInt(v) == IF v.t = "bool" THEN (IF v.b THEN 1 ELSE 0) ELSE v.n

RECURSIVE PyEq(_, _)
PyEq(a, b) ==
  IF a.t \in {"bool", "int"} /\ b.t \in {"bool", "int"} THEN AsInt(a) = AsInt(b)
  ELSE IF a.t # b.t THEN FALSE
  ELSE IF a.t = "list"
  THEN Len(a.xs) = Len(b.xs) /\ \A i \in 1..Len(a.xs) : PyEq(a.xs[i], b.xs[i])
  ELSE IF a.t = "dict"
  THEN KeySet(a) = KeySet(b) /\ \A k \in KeySet(a) : PyEq(Get(a, k), Get(b, k))
  ELSE a = b

\* C1: for every value of the data model and every valid configuration,
\* decoding the encoded text in strict mode returns a value equal to the
\* value that was encoded.
C1_RoundTrip ==
  (/\ call.op = "decode"
   /\ arg.kind = "value"
   /\ call.strict
   /\ ValidCfg(arg.cfg)
   /\ arg.value \in DataModelValues)
    => (call.result.ok /\ PyEq(call.result.value, arg.value))

\* The array a count document holds: its items as they are present.
Present(form, m) ==
  IF form = "tabular"
  THEN PyList([i \in 1..m |-> PyDict(<<<<k_id, PyInt(i)>>>>)])
  ELSE PyList([i \in 1..m |-> PyInt(i)])

AtKey(key, v) == IF key = <<>> THEN v ELSE PyDict(<<<<key, v>>>>)

\* The last call decoded the count document c and c declares a length that
\* differs from the number of items present.
DecodedMismatch(c) ==
  /\ call.op = "decode"
  /\ c.n # c.m
  /\ call.text = CountDoc(c.form, c.key, c.n, c.m)

\* C2: when the declared count of an array header differs from the number
\* of items or rows present (inline, tabular or list form), strict decode
\* raises a validation error and returns no value, and lenient decode
\* returns the array of the items present.
C2_CountMismatch ==
  \A c \in CountCases :
    DecodedMismatch(c) =>
      IF call.strict
      THEN Raised(call.result, "TOONValidationError")
      ELSE call.result = Ok(AtKey(c.key, Present(c.form, c.m)))

C2_Witness ==
  /\ call.op = "decode"
  /\ ~call.strict
  /\ call.text = InlineDoc(<<>>, 3, 2)
  /\ call.result = Ok(PyList(<<PyInt(1), PyInt(2)>>))

LaterValue(where, w) ==
  CASE where = "root" -> PyDict(<<<<k_k, PyInt(w)>>>>)
    [] where = "nested" -> PyDict(<<<<k_p, PyDict(<<<<k_k, PyInt(w)>>>>)>>>>)
    [] where = "item" -> PyList(<<PyDict(<<<<k_k, PyInt(w)>>>>)>>)

\* C4: when a key occurs twice at one object level (root, nested object,
\* object written as a list item), strict decode raises a duplicate-key
\* error and lenient decode returns the object with the later value.
C4_DuplicateKey ==
  \A where \in Levels, v \in 1..2, w \in 1..2 :
    (call.op = "decode" /\ call.text = TwoKeyDoc(where, k_k, v, w)) =>
      IF call.strict
      THEN Raised(call.result, "TOONDecodeError")
           /\ call.result.message = "Duplicate key"
      ELSE call.result = Ok(LaterValue(where, w))

C4_Witness ==
  /\ call.op = "decode"
  /\ ~call.strict
  /\ call.text = TwoKeyDoc("item", k_k, 1, 2)
  /\ call.result = Ok(LaterValue("item", 2))

\* C5: an array that is the value of an object's key is written with its
\* header fused onto the key, "<key>[N]...".
C5_FusedHeader ==
  (/\ call.op = "encode"
   /\ call.result.ok
   /\ arg.value.t = "dict"
   /\ Len(arg.value.kv) = 1
   /\ arg.value.kv[1][2].t = "list")
    => StartsWith(call.result.value,
                  arg.value.kv[1][1] \o <<"[">> \o
                  NatToStr(Len(arg.value.kv[1][2].xs)))

\* C6: an array encoded with the tab or the pipe delimiter carries the
\* delimiter in its header, after the count inside the brackets.
C6_DelimiterMarker ==
  (/\ call.op = "encode"
   /\ call.result.ok
   /\ arg.value.t = "list"
   /\ arg.value.xs # <<>>
   /\ arg.cfg.delimiter \in {"|", TAB})
    => StartsWith(call.result.value,
                  <<"[">> \o NatToStr(Len(arg.value.xs)) \o
                  <<arg.cfg.delimiter, "]">>)

RECURSIVE Accepts(_, _)
Accepts(h, v) ==
  CASE v.t = "list" -> \E i \in 1..Len(v.xs) : Accepts(h, v.xs[i])
    [] v.t = "dict" -> \E i \in 1..Len(v.kv) : Accepts(h, v.kv[i][2])
    [] IsScalar(v) -> FALSE
    [] OTHER -> can_handle(h, v)

DepthRejected(r) ==
  Raised(r, "TOONEncodeError") /\ r.message = "Maximum nesting depth"

\* C9: encoding fails with the max-depth error exactly when the nesting of
\* the value exceeds MAX_NESTING_DEPTH; the failed call returns no text,
\* and a value nested no deeper than the cap is not rejected for depth.
C9_DepthCap ==
  (call.op = "encode" /\ ValidCfg(arg.cfg)) =>
    /\ \A shape \in Shapes, n \in 0..MaxDeep :
         arg.value = Chain(shape, n) =>
           (DepthRejected(call.result) <=> n > MAX_NESTING_DEPTH)
    /\ arg.value \in DataModelValues => ~DepthRejected(call.result)

C9_Witness ==
  /\ call.op = "encode"
  /\ arg.value = Chain("dict", MAX_NESTING_DEPTH + 1)
  /\ DepthRejected(call.result)

Unsupported(r) ==
  Raised(r, "TOONEncodeError") /\ r.message = "Cannot encode type"

Handled(f) ==
  \/ f.t = "set"
  \/ f.t = "object" /\ f.cls = "uuid"
  \/ f.t = "object" /\ f.cls = "point" /\ Registered("PointHandler")

IsRootArray(v) == v.t = "list"

IsKeyedArray(v) == v.t = "dict" /\ Len(v.kv) = 1 /\ v.kv[1][2].t = "list"

ArrayOf(v) == IF v.t = "list" THEN v.xs ELSE v.kv[1][2].xs

\* The header line of the array in the text and the lines under it.
HeaderOf(v, lines) ==
  IF v.t = "list" THEN lines[1]
  ELSE IF Len(lines) = 1
  THEN SubSeq(lines[1], Len(encode_key(v.kv[1][1], ",")) + 3 + Len(s_array),
              Len(lines[1]))
  ELSE LStrip(lines[2])

BodyOf(v, lines) ==
  IF v.t = "list" THEN Tail(lines)
  ELSE IF Len(lines) = 1 THEN <<>>
  ELSE Tail(Tail(lines))

AfterBracket(header) ==
  SubSeq(header, IndexFrom(header, "]", 1) + 1, Len(header))

\* The form a header line and the lines under it are written in.
ObservedForm(header, body) ==
  IF AfterBracket(header) = <<":">> /\ body = <<>> THEN "empty"
  ELSE IF StartsWith(AfterBracket(header), <<"{">>) THEN "tabular"
  ELSE IF StartsWith(AfterBracket(header), <<":", SP>>) /\ body = <<>>
  THEN "inline"
  ELSE IF /\ AfterBracket(header) = <<":">>
          /\ StartsWith(LStrip(body[1]), <<"-", SP>>)
  THEN "list"
  ELSE "none"

UniformRows(arr) ==
  /\ \A i \in 1..Len(arr) : arr[i].t = "dict"
  /\ \A i \in 1..Len(arr) : KeySet(arr[i]) = KeySet(arr[1])
  /\ \A i \in 1..Len(arr) : \A k \in KeySet(arr[i]) : IsScalar(Get(arr[i], k))

\* The form the priority rule gives an array.
ExpectedForm(arr) ==
  IF arr = <<>> THEN "empty"
  ELSE IF UniformRows(arr) /\ KeySet(arr[1]) # {} THEN "tabular"
  ELSE IF \A i \in 1..Len(arr) : IsScalar(arr[i]) THEN "inline"
  ELSE "list"

AllEmptyObjects(arr) ==
  arr # <<>> /\ \A i \in 1..Len(arr) : arr[i] = PyDict(<<>>)

EncodedArray ==
  /\ call.op = "encode"
  /\ call.result.ok
  /\ arg.value \in DataModelValues \cup FormValues
  /\ IsRootArray(arg.value) \/ IsKeyedArray(arg.value)

\* C11: every array is written in the one form the priority gives it: a
\* header alone when it is empty, else tabular when its elements are
\* objects with one shared non-empty key set and scalar values, else inline
\* when every element is a scalar, else list; the header states the length,
\* and an array of empty objects is the list of lines "- {}".
C11_FormPriority ==
  EncodedArray =>
    /\ ObservedForm(HeaderOf(arg.value, SplitLines(call.result.value)),
                    BodyOf(arg.value, SplitLines(call.result.value)))
         = ExpectedForm(ArrayOf(arg.value))
    /\ StartsWith(HeaderOf(arg.value, SplitLines(call.result.value)),
                  <<"[">> \o NatToStr(Len(ArrayOf(arg.value))))
    /\ AllEmptyObjects(ArrayOf(arg.value)) =>
         /\ Len(BodyOf(arg.value, SplitLines(call.result.value)))
              = Len(ArrayOf(arg.value))
         /\ \A i \in 1..Len(ArrayOf(arg.value)) :
              LStrip(BodyOf(arg.value, SplitLines(call.result.value))[i])
                = <<"-", SP, "{", "}">>

C11_Witness ==
  /\ call.op = "encode"
  /\ arg.value = PyList(<<PyDict(<<>>), PyDict(<<>>)>>)
  /\ arg.cfg = Cfg(DEFAULT_INDENT, ",", FALSE)
  /\ call.result = Ok(Doc(<<<<"[", "2", "]", ":">>,
                           <<SP, SP, "-", SP, "{", "}">>,
                           <<SP, SP, "-", SP, "{", "}">>>>))

Analysed == call.op = "analyze" /\ arg.value \in DataModelValues \cup FormValues

\* C12: the analyser reports a non-empty array tabular exactly when every
\* element is an object, all elements have the same set of keys in whatever
\* order, and no value of any element is an array or an object; it reports
\* the empty array tabular with no fields, and a non-tabular array with no
\* fields.
C12_TabularIff ==
  Analysed =>
    /\ call.result.is_tabular <=> UniformRows(arg.value.xs)
    /\ arg.value.xs = <<>> => call.result = [is_tabular |-> TRUE, fields |-> <<>>]
    /\ ~call.result.is_tabular => call.result.fields = <<>>

C12_Witness ==
  /\ call.op = "analyze"
  /\ arg.value = PyList(<<PyDict(<<<<k_k, PyInt(1)>>, <<k_id, PyInt(1)>>>>),
                          PyDict(<<<<k_id, PyInt(2)>>, <<k_k, PyStr(<<"a">>)>>>>)>>)
  /\ call.result.is_tabular

Ascending(fs) == \A i \in 1..(Len(fs) - 1) : StrLess(fs[i], fs[i + 1])

\* The lists that hold every key of S once, in code-point order.
FieldLists(S) == {fs \in [1..Cardinality(S) -> S] : Ascending(fs)}

TabularHeader(n, fs, delimiter) ==
  <<"[">> \o NatToStr(n) \o DelimiterHint(delimiter) \o <<"]", "{">> \o
  Join([i \in 1..Len(fs) |-> encode_key(fs[i], delimiter)], <<delimiter>>) \o
  <<"}", ":">>

\* C13: the field list of a tabular array is its shared key set in
\* code-point order, whatever the insertion order of the keys; a repeated
\* analysis of the array returns the same list; and the header the encoder
\* writes for the array lists the fields in that order with the key-sort
\* flag on and off.
C13_SortedFields ==
  /\ (Analysed /\ call.result.is_tabular /\ arg.value.xs # <<>>) =>
       call.result.fields \in FieldLists(KeySet(arg.value.xs[1]))
  /\ (Analysed /\ call.runs > 1) => call.result = call.previous[1]
  /\ (EncodedArray /\ IsRootArray(arg.value)
        /\ ExpectedForm(arg.value.xs) = "tabular") =>
       SplitLines(call.result.value)[1]
         \in {TabularHeader(Len(arg.value.xs), fs, arg.cfg.delimiter) :
                fs \in FieldLists(KeySet(arg.value.xs[1]))}

C13_Witness ==
  /\ call.op = "analyze"
  /\ call.runs = 2
  /\ arg.value = PyList(<<PyDict(<<<<k_k, PyInt(1)>>, <<k_id, PyInt(1)>>>>),
                          PyDict(<<<<k_id, PyInt(2)>>, <<k_k, PyStr(<<"a">>)>>>>)>>)
  /\ call.result.fields = <<k_id, k_k>>

\* An integer or a decimal number: -?digits(.digits)?
UnsignedNumber(t) ==
  \/ AllDigits(t)
  \/ \E i \in 2..(Len(t) - 1) :
       /\ t[i] = "."
       /\ AllDigits(SubSeq(t, 1, i - 1))
       /\ AllDigits(SubSeq(t, i + 1, Len(t)))

NumberPattern(t) ==
  UnsignedNumber(t) \/ (t # <<>> /\ t[1] = "-" /\ UnsignedNumber(Tail(t)))

Whitespace == {SP, TAB, NL, "\r"}

\* The clauses of the quoting rule.
MustQuote(text, delimiter) ==
  \/ text = <<>>
  \/ text \in {s_true, s_false, s_null}
  \/ NumberPattern(text)
  \/ (text # <<>> /\ IsDigit(text[1]))
  \/ (Len(text) >= 2 /\ text[1] = "-" /\ IsDigit(text[2]))
  \/ Contains(text, delimiter)
  \/ (text # <<>> /\ (text[1] \in Whitespace \/ text[Len(text)] \in Whitespace))
  \/ (Len(text) >= 2 /\ text[1] = "-" /\ text[2] = SP)
  \/ \E i \in 1..Len(text) : text[i] \in {":", "[", "]", "{", "}", NL, "\r", BS, DQ}

\* C14: needs_quoting is true for a text that is empty, is true, false or
\* null, looks like a number or begins with a digit or with '-' and a
\* digit, contains the active delimiter, has leading or trailing
\* whitespace, begins with "- ", or contains a colon, a bracket, a brace, a
\* newline, a carriage return, a backslash or a double quote.
C14_NeedsQuoting ==
  (call.op = "needs_quoting" /\ MustQuote(arg.text, arg.delimiter)) =>
    call.result = TRUE

C14_Witness ==
  /\ call.op = "needs_quoting"
  /\ arg.text = <<"4", "2", "p", "x">>
  /\ arg.delimiter = "|"
  /\ call.result = TRUE

\* The token of text x: quoted or bare.
Token(x, quoted) == IF quoted THEN quote_string(x) ELSE x

\* C15: a string that is the only key of an object and its value is written
\* quoted as the key exactly when it is written quoted as the value.
C15_KeysLikeValues ==
  (call.op = "encode" /\ call.result.ok /\ arg.value \in SameKeyValue) =>
    \E quoted \in BOOLEAN :
      call.result.value =
        Token(arg.value.kv[1][1], quoted) \o <<":", SP>> \o
        Token(arg.value.kv[1][1], quoted)

C15_Witness ==
  /\ call.op = "encode"
  /\ arg.value = PyDict(<<<<<<"a", ".", "b">>, PyStr(<<"a", ".", "b">>)>>>>)
  /\ call.result = Ok(<<"a", ".", "b", ":", SP, "a", ".", "b">>)

\* The sign, the digits without trailing zeros and the exponent of a
\* finite float that is not zero.
Normalised(f) ==
  <<f.neg, RStripZeros(NatToStr(f.m)),
    f.e + Len(NatToStr(f.m)) - Len(RStripZeros(NatToStr(f.m)))>>

\* Two finite floats are the same number.
SameNumber(f, g) ==
  IF f.m = 0 \/ g.m = 0 THEN f.m = g.m ELSE Normalised(f) = Normalised(g)

DecimalChars == {DigitChars[i] : i \in 1..10} \cup {"-", "."}

\* Plain decimal notation: an integer, or a fraction that ends in neither a
\* zero nor the decimal point.
Canonical(text) ==
  /\ \A i \in 1..Len(text) : text[i] \in DecimalChars
  /\ \/ IsIntToken(text)
     \/ (IsFloatToken(text) /\ text[Len(text)] # "0")
  /\ text # <<"-", "0">>

EncodedFloat ==
  call.op = "encode" /\ arg.value \in FloatValues /\ ValidCfg(arg.cfg)

\* C16: a float is written as null when it is NaN or an infinity, and
\* otherwise as its value in plain decimal notation with no exponent, no
\* trailing zero in the fraction and no bare decimal point; a zero of
\* either sign is written 0, 3.0 is written 3 and 1000000.0 is written
\* 1000000.
C16_FloatCanonical ==
  EncodedFloat =>
    /\ call.result.ok
    /\ arg.value.kind # "finite" => call.result.value = s_null
    /\ arg.value.kind = "finite" =>
         /\ Canonical(call.result.value)
         /\ arg.value.m = 0 => call.result.value = <<"0">>
         /\ IsFloatToken(call.result.value) =>
              SameNumber(parse_float(call.result.value), arg.value)
         /\ IsIntToken(call.result.value) =>
              SameNumber(parse_float(call.result.value \o <<".", "0">>), arg.value)
         /\ SameNumber(arg.value, PyFloat(FALSE, 3, 0)) =>
              call.result.value = <<"3">>
         /\ SameNumber(arg.value, PyFloat(FALSE, 1, 6)) =>
              call.result.value = <<"1", "0", "0", "0", "0", "0", "0">>

C16_Witness ==
  /\ call.op = "encode"
  /\ arg.value = PyFloat(FALSE, 30, -1)
  /\ call.result = Ok(<<"3">>)



SingleKeyObject(v) == v.t = "dict" /\ Len(v.kv) = 1

RECURSIVE CollapsedEntry(_, _, _, _), FoldedValue(_, _)

\* The entry a key becomes: key is the last segment of the dotted path so
\* far and v its value.  The key takes its single child while it is
\* fold-eligible and v is a single-key object; with childToo the child's key
\* must be fold-eligible as well.
CollapsedEntry(path, key, v, childToo) ==
  IF /\ is_foldable_key(key)
     /\ SingleKeyObject(v)
     /\ childToo => is_foldable_key(v.kv[1][1])
  THEN CollapsedEntry(path \o <<".">> \o v.kv[1][1], v.kv[1][1], v.kv[1][2],
                      childToo)
  ELSE <<path, FoldedValue(v, childToo)>>

\* Every entry of an object, and every element of a list, on its own.
FoldedValue(v, childToo) ==
  CASE v.t = "dict" ->
         PyDict([i \in 1..Len(v.kv) |->
                   CollapsedEntry(v.kv[i][1], v.kv[i][1], v.kv[i][2], childToo)])
    [] v.t = "list" ->
         PyList([i \in 1..Len(v.xs) |-> FoldedValue(v.xs[i], childToo)])
    [] OTHER -> v

\* C17 as stated: a key is collapsed with its single child exactly while
\* the key is fold-eligible and its value is an object with exactly one key,
\* whatever the key of that child is.
C17_FoldsWhileKeyEligible ==
  call.op = "fold" => call.result = FoldedValue(arg.value, FALSE)

\* C17: a key is collapsed with its single child exactly while the key is
\* fold-eligible and its value is an object with exactly one key that is
\* fold-eligible too; folding stops at the first multi-key object,
\* non-object value or non-fold-eligible key, and each value of a multi-key
\* object is folded on its own.
C17_KeyFolding ==
  call.op = "fold" =>
    /\ call.result = FoldedValue(arg.value, TRUE)
    /\ arg.value = Wrapper(key_a, Wrapper(key_a_b, PyInt(1))) =>
         call.result = arg.value
    /\ arg.value = Wrapper(key__p, Wrapper(key_a, PyInt(1))) =>
         call.result = arg.value
    /\ arg.value = Wrapper(key_a, Wrapper(key_b, Wrapper(key_a, PyDict(<<>>)))) =>
         call.result = Wrapper(<<"a", ".", "b", ".", "a">>, PyDict(<<>>))
    /\ arg.value = TwoKeys(Wrapper(key_a, Wrapper(key_a, PyInt(1))),
                           Wrapper(key_b, Wrapper(key_a, PyInt(1)))) =>
         call.result = PyDict(<<<<<<"a", ".", "a", ".", "a">>, PyInt(1)>>,
                                <<<<"b", ".", "b", ".", "a">>, PyInt(1)>>>>)

\* A chain of two wrappers was folded up to a two-key object.
C17_Witness ==
  /\ call.op = "fold"
  /\ arg.value = Wrapper(key_a, Wrapper(key_b, TwoKeys(PyInt(1), PyInt(1))))
  /\ call.result = Wrapper(<<"a", ".", "b">>, TwoKeys(PyInt(1), PyInt(1)))

\* C18: for every object, expanding the dotted keys of its folded form
\* gives the object back.
C18_ExpandInvertsFold ==
  call.op = "expand" => call.result.ok /\ PyEq(call.result.value, arg.value)

RECURSIVE LeafPaths(_, _)

\* The leaves of a dict of nested dicts, each with the path of keys that
\* leads to it.
LeafPaths(kv, prefix) ==
  UNION {IF kv[i][2].t = "dict"
         THEN LeafPaths(kv[i][2].kv, Append(prefix, kv[i][1]))
         ELSE {<<Append(prefix, kv[i][1]), kv[i][2]>>} : i \in 1..Len(kv)}

\* The last call of _set_nested was given a path on which the dict already
\* held a leaf that the path would extend, a path that the path would
\* replace by a leaf, or the same path.
Conflicting ==
  \E leaf \in LeafPaths(call.before, <<>>) :
    \/ IsPrefix(leaf[1], split_dots(call.entries[Len(call.entries)][1]))
    \/ IsPrefix(split_dots(call.entries[Len(call.entries)][1]), leaf[1])
    \/ leaf[1] = split_dots(call.entries[Len(call.entries)][1])

KeyError(r) ==
  /\ Raised(r, "TOONDecodeError")
  /\ r.message \in {"Key conflict", "Duplicate key"}

\* The entries so far are exactly these keys, in this order.
KeysGiven(keys) ==
  /\ Len(call.entries) = Len(keys)
  /\ \A i \in 1..Len(keys) : call.entries[i][1] = keys[i]

\* C19: setting a dotted key raises a key-conflict or duplicate-key error
\* whenever a leaf would be extended as a path, a path would be replaced by
\* a leaf or the same path occurs twice, and the dict stays as it was;
\* otherwise the value is stored at the path.  No leaf already there is
\* ever replaced, and the validation of a flat dict raises whenever the
\* path of one key runs through the path of another.
C19_KeyConflicts ==
  /\ call.op = "set_nested" =>
       /\ Conflicting => KeyError(call.result) /\ call.data = call.before
       /\ ~Conflicting =>
            /\ call.result.ok
            /\ LeafPaths(call.data, <<>>) =
                 LeafPaths(call.before, <<>>)
                 \cup {<<split_dots(call.entries[Len(call.entries)][1]),
                         call.entries[Len(call.entries)][2]>>}
       /\ LeafPaths(call.before, <<>>) \subseteq LeafPaths(call.data, <<>>)
       /\ KeysGiven(<<key_a, key_a>>) => call.result.message = "Duplicate key"
       /\ KeysGiven(<<key_a_b, key_a_b>>) => call.result.message = "Duplicate key"
       /\ KeysGiven(<<key_a, key_a_b>>) => call.result.message = "Key conflict"
       /\ KeysGiven(<<key_a_b, key_a>>) => call.result.message = "Duplicate key"
       /\ KeysGiven(<<<<"a", ".", "b", ".", "a">>, key_a_b>>) =>
            call.result.message = "Key conflict"
  /\ call.op = "validate" =>
       IF \E i, j \in 1..Len(call.data.kv) :
            IsPrefix(split_dots(call.data.kv[i][1]), split_dots(call.data.kv[j][1]))
       THEN Raised(call.result, "TOONDecodeError")
            /\ call.result.message = "Key conflict"
       ELSE call.result.ok

\* A path through the leaf set first was refused after a sibling had been
\* merged in, and the dict kept both leaves.
C19_Witness ==
  /\ call.op = "set_nested"
  /\ KeysGiven(<<key_a_b, <<"a", ".", "a">>, <<"a", ".", "b", ".", "a">>>>)
  /\ KeyError(call.result)
  /\ call.data = <<<<key_a, PyDict(<<<<key_b, PyInt(1)>>, <<key_a, PyInt(2)>>>>)>>>>

\* C20: a transition requested of a machine in the ERROR state, to
\* whatever state, is rejected with "Invalid state transition" and the
\* machine stays in ERROR.
C20_ErrorTerminal ==
  call.op = "transition_to" /\ call.from = "ERROR" =>
    /\ Raised(call.result, "TOONDecodeError")
    /\ call.result.message = "Invalid state transition"
    /\ sm.state = "ERROR"

\* A machine in ERROR was asked to go to INITIAL.
C20_Witness ==
  /\ call.op = "transition_to"
  /\ call.from = "ERROR"
  /\ call.to = "INITIAL"
  /\ ~call.result.ok
  /\ sm.state = "ERROR"

ChainEdges ==
  {<<"INITIAL", "EXPECT_KEY">>, <<"INITIAL", "COMPLETE">>,
   <<"EXPECT_KEY", "EXPECT_COLON">>, <<"EXPECT_COLON", "EXPECT_VALUE">>}
  \cup {<<"EXPECT_VALUE", c>> : c \in Containers}
  \cup {<<c, t>> : c \in Containers, t \in {"EXPECT_KEY", "COMPLETE"}}
  \cup {<<s, "ERROR">> : s \in ParserState \ {"COMPLETE", "ERROR"}}

\* C26: transition_to accepts a request only if it is an edge of the chain,
\* INITIAL to COMPLETE or an edge into ERROR, and then the machine is in the
\* requested state; every other request, every request made in COMPLETE
\* included, raises "Invalid state transition" and leaves the state as it
\* was.
C26_OnlyChainEdges ==
  call.op = "transition_to" =>
    /\ call.result.ok => <<call.from, call.to>> \in ChainEdges /\ sm.state = call.to
    /\ <<call.from, call.to>> \notin ChainEdges =>
         /\ Raised(call.result, "TOONDecodeError")
         /\ call.result.message = "Invalid state transition"
         /\ sm.state = call.from
    /\ call.from = "COMPLETE" => ~call.result.ok
    /\ call.from = "INITIAL" /\ call.to = "EXPECT_COLON" => ~call.result.ok
    /\ call.from = "IN_ARRAY_TABULAR" /\ call.to = "EXPECT_KEY" => call.result.ok

\* A machine in COMPLETE was asked for EXPECT_KEY and refused.
C26_Witness ==
  /\ call.op = "transition_to"
  /\ call.from = "COMPLETE"
  /\ call.to = "EXPECT_KEY"
  /\ Raised(call.result, "TOONDecodeError")
  /\ sm.state = "COMPLETE"

\* C27: after any sequence of push_indent, pop_indent, check_dedent and
\* reset calls, rejected ones included, the indentation stack is not empty,
\* its bottom element is 0, it is strictly increasing from bottom to top,
\* and nesting_depth is its length minus one.
C27_IndentStack ==
  /\ Len(sm.indent_stack) >= 1
  /\ sm.indent_stack[1] = 0
  /\ \A i \in 1..(Len(sm.indent_stack) - 1) :
       sm.indent_stack[i] < sm.indent_stack[i + 1]
  /\ nesting_depth(sm) = Len(sm.indent_stack) - 1
  /\ call.op = "pop_indent" /\ ~call.result.ok => sm.indent_stack = <<0>>

\* A level below the current one was pushed and refused.
C27_Witness ==
  /\ call.op = "push_indent"
  /\ ~call.result.ok
  /\ sm.indent_stack = <<0, 2 * DEFAULT_INDENT>>

\* The handlers of the list that accept the value, in the order of the list.
Accepting(hs, v) == SelectSeq(hs, LAMBDA h : can_handle(h, v))

\* C22: a registration puts the new handler ahead of every handler
\* registered before it and of the built-in ones, and an encode call on a
\* value outside the data model returns the text of the first handler of
\* the list that accepts the value, written as a string: the text of the
\* handler registered last among those that accept it.
C22_FirstMatch ==
  [][/\ handlers' # handlers =>
          /\ Tail(handlers') = handlers
          /\ Head(handlers') \in UserHandlers
     /\ (/\ call' # call
         /\ call'.op = "encode"
         /\ ValidCfg(arg.cfg)
         /\ arg.value \in Foreign
         /\ Accepting(handlers, arg.value) # <<>>) =>
          call'.result =
            encode(PyStr(handler_encode(Head(Accepting(handlers, arg.value)),
                                        arg.value)),
                   arg.cfg, BuiltinHandlers)
     /\ (/\ call' # call
         /\ call'.op = "encode"
         /\ ValidCfg(arg.cfg)
         /\ arg.value = PyObject("uuid")
         /\ Len(handlers) > Len(BuiltinHandlers)
         /\ Head(handlers) = "PointHandler"
         /\ handlers[2] = "PriorityUUIDHandler") =>
          call'.result = Ok(<<DQ>> \o s_priority_uuid \o <<"7", DQ>>)]_vars

\* A UUID was encoded by the handler registered last, ahead of one
\* registered before it and of the built-in one.
C22_Witness ==
  /\ call.op = "encode"
  /\ call.handlers = <<"PriorityUUIDHandler", "CustomUUIDHandler">> \o BuiltinHandlers
  /\ arg.value = PyObject("uuid")
  /\ call.result = Ok(<<DQ>> \o s_priority_uuid \o <<"7", DQ>>)

\* C23: an indent width is accepted only if it is an integer from
\* MIN_INDENT to MAX_INDENT; every other width is rejected.
C23_IndentRange ==
  call.op = "validate_indent" =>
    (call.result.ok <=> arg.indent \in MIN_INDENT..MAX_INDENT)

\* C24: an array whose strings hold a delimiter character other than the
\* one it was encoded with is decoded to the same array: the payload is not
\* split on the other character.
C24_OnlyDeclaredDelimiter ==
  (/\ call.op = "decode"
   /\ arg.kind = "value"
   /\ arg.value \in DelimiterValues(arg.cfg.delimiter))
    => (call.result.ok /\ PyEq(call.result.value, arg.value))

\* Whether the call c of a check is one that finds a violation.
Violates(c) ==
  \/ c.method = "validate_array_length" /\ c.declared # c.actual
  \/ c.method = "validate_field_consistency" /\ c.expected # c.actual
  \/ c.method = "validate_field_count" /\ c.expected # c.actual
  \/ c.method = "validate_not_empty" /\ Len(c.value) = 0
  \/ c.method = "validate_no_duplicate_keys" /\ c.key \in c.existing
  \/ c.method = "validate_indent_consistency"
       /\ c.indent \notin {c.indent_size * n : n \in 0..c.indent}
  \/ c.method = "validate_positive_integer" /\ c.value < 0

\* A step that is a call of a check.
CheckStep == call'.op = "check" /\ <<validator, call>> # <<validator', call'>>

\* C25: a check that finds a violation raises in strict mode, with the line
\* and the column of the call, and records no warning; in lenient mode it
\* returns and appends exactly one warning holding a message, the line and
\* the column.  A check that finds none changes nothing.  The warnings of a
\* strict validator are always empty.
C25_StrictRaisesLenientRecords ==
  /\ [](validator.strict => validator.warnings = <<>>)
  /\ [][CheckStep =>
          /\ validator'.strict = validator.strict
          /\ IF ~Violates(call.check)'
             THEN call'.result.ok /\ validator' = validator
             ELSE IF validator.strict
             THEN /\ Raised(call'.result, "TOONValidationError")
                  /\ call'.result.line = call'.check.line
                  /\ call'.result.column = call'.check.column
                  /\ validator' = validator
             ELSE /\ call'.result.ok
                  /\ Len(validator'.warnings) = Len(validator.warnings) + 1
                  /\ SubSeq(validator'.warnings, 1, Len(validator.warnings))
                       = validator.warnings
                  /\ LET w == validator'.warnings[Len(validator'.warnings)]
                     IN  /\ DOMAIN w = {"message", "line", "column"}
                         /\ w.message # ""
                         /\ w.line = call'.check.line
                         /\ w.column = call'.check.column]_vars

\* Two violations recorded by a lenient validator, in the order of the calls.
C25_Witness ==
  /\ ~validator.strict
  /\ call.op = "check"
  /\ call.check.method = "validate_no_duplicate_keys"
  /\ validator.warnings =
       <<ValidationWarning("Array length mismatch", 5, 10),
         ValidationWarning("Duplicate key", 5, 1)>>

\* A step that is a call on the line cursor.
CursorStep ==
  /\ call'.op \in {"peek", "peek_at_depth", "at_end", "next", "advance"}
  /\ <<cursor, call>> # <<cursor', call'>>

Indentations(text) ==
  {LeadingSpaces(SplitLines(text)[i]) :
     i \in {j \in 1..Len(SplitLines(text)) : Strip(SplitLines(text)[j]) # <<>>}}

\* Whether every width is an exact multiple of the indent size.
AllMultiples(widths, indent_size) == \A w \in widths : w % indent_size = 0

DecoderInit ==
  /\ handlers = BuiltinHandlers
  /\ arg \in RunArgs
  /\ call = [op |-> "none"]
  /\ sm = StateMachine
  /\ validator = Validator(TRUE)
  /\ cursor = LineCursor(<<>>)
  /\ run = [status |-> "ready", stack |-> <<>>]

\* Decoder.decode up to the root of the document.
Begin ==
  /\ run.status = "ready"
  /\ \E scan \in {scan_lines(arg.text, DEFAULT_INDENT, arg.strict)} :
       \E r \in {begin(arg.text, scan, arg.strict)} :
         /\ run' = [status |-> r.status, stack |-> r.stack]
         /\ cursor' = r.cursor
  /\ UNCHANGED <<handlers, arg, call, sm, validator>>

ObjectStep ==
  /\ run.status = "running"
  /\ run.stack # <<>>
  /\ Top(run.stack).kind = "object"
  /\ \E r \in {object_step(cursor, run.stack, arg.strict)} :
       run' = Running(r) /\ cursor' = r.cursor
  /\ UNCHANGED <<handlers, arg, call, sm, validator>>

ListStep ==
  /\ run.status = "running"
  /\ run.stack # <<>>
  /\ Top(run.stack).kind = "list"
  /\ \E r \in {list_step(cursor, run.stack, arg.strict)} :
       run' = Running(r) /\ cursor' = r.cursor
  /\ UNCHANGED <<handlers, arg, call, sm, validator>>

RowsStep ==
  /\ run.status = "running"
  /\ run.stack # <<>>
  /\ Top(run.stack).kind = "rows"
  /\ \E r \in {rows_step(cursor, run.stack, arg.strict)} :
       run' = Running(r) /\ cursor' = r.cursor
  /\ UNCHANGED <<handlers, arg, call, sm, validator>>

\* The root value is complete: every line must have been used.
Finish ==
  /\ run.status = "running"
  /\ run.stack = <<>>
  /\ run' = [status |-> IF at_end(cursor) THEN "returned" ELSE "raised",
             stack |-> <<>>]
  /\ UNCHANGED <<handlers, arg, call, sm, validator, cursor>>

DecoderNext == Begin \/ ObjectStep \/ ListStep \/ RowsStep \/ Finish

DecoderSpec == DecoderInit /\ [][DecoderNext]_vars

Done == run.status \in {"returned", "raised"}

\* A step of one of the decoder's loops.
LoopStep == run.status = "running" /\ run.stack # <<>> /\ run' # run

\* The decoder can take a step.
CanStep ==
  \/ run.status = "ready"
  \/ /\ run.status = "running"
     /\ run.stack # <<>> => Top(run.stack).kind \in {"object", "list", "rows"}

\* What is left to do: the lines not yet consumed (before the start, the
\* lines the text will be scanned to), the loops that are open,
\* and the start and the end of the run.  A line weighs more than the two
\* loops a step can open on it, the start more than the loop it can open.
Variant ==
  3 * (IF run.status = "ready"
       THEN Len(ScannedLines(arg.text, arg.strict))
       ELSE Len(cursor.lines) - cursor.position)
    + Len(run.stack)
    + (CASE run.status = "ready" -> 3
         [] run.status = "running" -> 1
         [] OTHER -> 0)

=============================================================================
